---- MODULE Spec2Model ----
(***************************************************************************)
(* Model of the hamster moderation bot (src/bot.py).                       *)
(*                                                                         *)
(* Text is a sequence of one-character strings, so that the string         *)
(* operations of the source (lower, startswith, endswith, substring        *)
(* search, re.sub, split, strip) are computed rather than assumed.         *)
(* Python's None is the one-element sequence None, which no text equals.   *)
(***************************************************************************)
EXTENDS Integers, Sequences, FiniteSets, TLC

\* ------------------------------------------------------------------------
\* Python values
\* ------------------------------------------------------------------------
None == <<"None">>

Falsy(s) == s = None \/ s = <<>>

OrEmpty(s) == IF s = None THEN <<>> ELSE s

LowerAlpha == <<"a","b","c","d","e","f","g","h","i","j","k","l","m",
                "n","o","p","q","r","s","t","u","v","w","x","y","z">>

UpperAlpha == <<"A","B","C","D","E","F","G","H","I","J","K","L","M",
                "N","O","P","Q","R","S","T","U","V","W","X","Y","Z">>

Digits == {"0","1","2","3","4","5","6","7","8","9"}

\* the characters str.strip() and str.split() treat as whitespace: tab, line
\* feed, vertical tab (0B), form feed, carriage return, the separators 1C-1F
\* and space; next line (85) and no-break space (A0); the Unicode spaces
Whitespace ==
    { "\t", "\n", "", "\f", "\r", "", "", "", "", " ",
      "", " ",
      "U+1680", "U+2000", "U+2001", "U+2002", "U+2003", "U+2004", "U+2005", "U+2006", "U+2007",
      "U+2008", "U+2009", "U+200A", "U+2028", "U+2029", "U+202F", "U+205F", "U+3000" }

SeqRange(s) == {s[i] : i \in 1..Len(s)}

LowerLetters == SeqRange(LowerAlpha)

UpperLetters == SeqRange(UpperAlpha)

IsLower(c) == c \in LowerLetters

IsUpper(c) == c \in UpperLetters

\* the lower-case letter of each upper-case letter, and the converse
ToLower ==
    [c \in UpperLetters |->
        LowerAlpha[CHOOSE i \in 1..Len(UpperAlpha) : UpperAlpha[i] = c]]

ToUpper ==
    [c \in LowerLetters |->
        UpperAlpha[CHOOSE i \in 1..Len(LowerAlpha) : LowerAlpha[i] = c]]

\* The alphabet of the model is ASCII, Latin-1, the characters beyond them
\* that str.lower() or str.upper() maps to a text with a character of these,
\* and whatever the two mappings make of all those: thirty characters above
\* U+00FF, each written as the one-character token "U+XXXX".
\* str.lower() of the characters of the alphabet outside ASCII whose result
\* differs from the character
LowerOther ==
    "À" :> <<"à">> @@ "Á" :> <<"á">> @@ "Â" :> <<"â">> @@ "Ã" :> <<"ã">> @@
    "Ä" :> <<"ä">> @@ "Å" :> <<"å">> @@ "Æ" :> <<"æ">> @@ "Ç" :> <<"ç">> @@
    "È" :> <<"è">> @@ "É" :> <<"é">> @@ "Ê" :> <<"ê">> @@ "Ë" :> <<"ë">> @@
    "Ì" :> <<"ì">> @@ "Í" :> <<"í">> @@ "Î" :> <<"î">> @@ "Ï" :> <<"ï">> @@
    "Ð" :> <<"ð">> @@ "Ñ" :> <<"ñ">> @@ "Ò" :> <<"ò">> @@ "Ó" :> <<"ó">> @@
    "Ô" :> <<"ô">> @@ "Õ" :> <<"õ">> @@ "Ö" :> <<"ö">> @@ "Ø" :> <<"ø">> @@
    "Ù" :> <<"ù">> @@ "Ú" :> <<"ú">> @@ "Û" :> <<"û">> @@ "Ü" :> <<"ü">> @@
    "Ý" :> <<"ý">> @@ "Þ" :> <<"þ">> @@ "U+0130" :> <<"i", "U+0307">> @@ "U+0178" :> <<"ÿ">> @@
    "U+039C" :> <<"U+03BC">> @@ "U+1E9E" :> <<"ß">> @@ "U+212A" :> <<"k">> @@ "U+212B" :> <<"å">>

\* str.upper() of the same range
UpperOther ==
    "µ" :> <<"U+039C">> @@ "ß" :> <<"S", "S">> @@ "à" :> <<"À">> @@ "á" :> <<"Á">> @@
    "â" :> <<"Â">> @@ "ã" :> <<"Ã">> @@ "ä" :> <<"Ä">> @@ "å" :> <<"Å">> @@
    "æ" :> <<"Æ">> @@ "ç" :> <<"Ç">> @@ "è" :> <<"È">> @@ "é" :> <<"É">> @@
    "ê" :> <<"Ê">> @@ "ë" :> <<"Ë">> @@ "ì" :> <<"Ì">> @@ "í" :> <<"Í">> @@
    "î" :> <<"Î">> @@ "ï" :> <<"Ï">> @@ "ð" :> <<"Ð">> @@ "ñ" :> <<"Ñ">> @@
    "ò" :> <<"Ò">> @@ "ó" :> <<"Ó">> @@ "ô" :> <<"Ô">> @@ "õ" :> <<"Õ">> @@
    "ö" :> <<"Ö">> @@ "ø" :> <<"Ø">> @@ "ù" :> <<"Ù">> @@ "ú" :> <<"Ú">> @@
    "û" :> <<"Û">> @@ "ü" :> <<"Ü">> @@ "ý" :> <<"Ý">> @@ "þ" :> <<"Þ">> @@
    "ÿ" :> <<"U+0178">> @@ "U+0131" :> <<"I">> @@ "U+0149" :> <<"U+02BC", "N">> @@ "U+017F" :> <<"S">> @@
    "U+01F0" :> <<"J", "U+030C">> @@ "U+03BC" :> <<"U+039C">> @@ "U+1E96" :> <<"H", "U+0331">> @@ "U+1E97" :> <<"T", "U+0308">> @@
    "U+1E98" :> <<"W", "U+030A">> @@ "U+1E99" :> <<"Y", "U+030A">> @@ "U+1E9A" :> <<"A", "U+02BE">> @@ "U+FB00" :> <<"F", "F">> @@
    "U+FB01" :> <<"F", "I">> @@ "U+FB02" :> <<"F", "L">> @@ "U+FB03" :> <<"F", "F", "I">> @@ "U+FB04" :> <<"F", "F", "L">> @@
    "U+FB05" :> <<"S", "T">> @@ "U+FB06" :> <<"S", "T">>

\* c.lower() for a one-character string: the text it becomes
LowerChar(c) ==
    IF IsUpper(c) THEN <<ToLower[c]>>
    ELSE IF c \in DOMAIN LowerOther THEN LowerOther[c]
    ELSE <<c>>

\* c.upper() for a one-character string
UpperChar(c) ==
    IF IsLower(c) THEN <<ToUpper[c]>>
    ELSE IF c \in DOMAIN UpperOther THEN UpperOther[c]
    ELSE <<c>>

RECURSIVE Concat(_)
Concat(texts) == IF texts = <<>> THEN <<>> ELSE Head(texts) \o Concat(Tail(texts))

\* the characters' own mappings, joined; most map to one character
Joined(parts) ==
    IF \A i \in 1..Len(parts) : Len(parts[i]) = 1
    THEN [i \in 1..Len(parts) |-> parts[i][1]]
    ELSE Concat(parts)

\* str.lower(), character by character; the one rule of str.lower() that
\* looks at the neighbours is for the capital sigma (U+03A3), which is not in
\* the alphabet
Lower(s) == Joined([i \in 1..Len(s) |-> LowerChar(s[i])])

\* str.upper()
Upper(s) == Joined([i \in 1..Len(s) |-> UpperChar(s[i])])

\* str.startswith(p)
StartsWith(s, p) == Len(p) <= Len(s) /\ SubSeq(s, 1, Len(p)) = p

\* str.endswith(p)
EndsWith(s, p) == Len(p) <= Len(s) /\ SubSeq(s, Len(s) - Len(p) + 1, Len(s)) = p

\* sub in s
Contains(s, sub) ==
    \E i \in 1..(Len(s) - Len(sub) + 1) : SubSeq(s, i, i + Len(sub) - 1) = sub

\* s.split(sep, 1)[0] for a one-character separator
BeforeFirst(s, sep) ==
    IF \E i \in 1..Len(s) : s[i] = sep
    THEN LET k == CHOOSE i \in 1..Len(s) :
                     s[i] = sep /\ \A j \in 1..(i - 1) : s[j] # sep
         IN  SubSeq(s, 1, k - 1)
    ELSE s

\* str.strip()
RECURSIVE LStrip(_)
LStrip(s) == IF s # <<>> /\ Head(s) \in Whitespace THEN LStrip(Tail(s)) ELSE s

RECURSIVE RStrip(_)
RStrip(s) ==
    IF s # <<>> /\ s[Len(s)] \in Whitespace
    THEN RStrip(SubSeq(s, 1, Len(s) - 1))
    ELSE s

Strip(s) == RStrip(LStrip(s))

\* str.split(): the maximal runs of non-whitespace characters, in order
RECURSIVE SplitAcc(_, _, _)
SplitAcc(s, cur, acc) ==
    IF s = <<>>
    THEN IF cur = <<>> THEN acc ELSE Append(acc, cur)
    ELSE IF Head(s) \in Whitespace
         THEN SplitAcc(Tail(s), <<>>, IF cur = <<>> THEN acc ELSE Append(acc, cur))
         ELSE SplitAcc(Tail(s), Append(cur, Head(s)), acc)

Split(s) == SplitAcc(s, <<>>, <<>>)

\* re.sub(r"[^a-z0-9]+", " ", s): every run of other characters becomes one space
RECURSIVE SubNonAlnumRuns(_, _)
SubNonAlnumRuns(s, inRun) ==
    IF s = <<>> THEN <<>>
    ELSE IF IsLower(Head(s)) \/ Head(s) \in Digits
         THEN <<Head(s)>> \o SubNonAlnumRuns(Tail(s), FALSE)
         ELSE IF inRun THEN SubNonAlnumRuns(Tail(s), TRUE)
              ELSE <<" ">> \o SubNonAlnumRuns(Tail(s), TRUE)

\* re.sub(r"[^A-Z]", " ", s): every other character becomes a space
SubNonUpper(s) == [i \in 1..Len(s) |-> IF IsUpper(s[i]) THEN s[i] ELSE " "]

\* " ".join(strings)
RECURSIVE JoinSpace(_)
JoinSpace(strs) ==
    IF strs = <<>> THEN <<>>
    ELSE IF Len(strs) = 1 THEN strs[1]
         ELSE strs[1] \o <<" ">> \o JoinSpace(Tail(strs))

\* ------------------------------------------------------------------------
\* Nested metadata values: None, str, dict (walked by values), list, other
\* ------------------------------------------------------------------------
NoneV == [tag |-> "none", s |-> <<>>, keys |-> <<>>, items |-> <<>>]

StrV(text) == [tag |-> "str", s |-> text, keys |-> <<>>, items |-> <<>>]

\* a value that is neither None, str, dict nor list; text is its str(value)
OtherV(text) == [tag |-> "other", s |-> text, keys |-> <<>>, items |-> <<>>]

ListV(vals) == [tag |-> "list", s |-> <<>>, keys |-> <<>>, items |-> vals]

DictV(ks, vals) == [tag |-> "dict", s |-> <<>>, keys |-> ks, items |-> vals]

\* an optional string as a value
OptV(text) == IF text = None THEN NoneV ELSE StrV(text)

HAMSTER_KEYWORDS ==
    { <<"h","a","m","s","t","e","r">>,
      <<"h","a","m","m","y">>,
      <<"h","a","m","t","a","r","o">> }

HAMPTER == <<"h","a","m","p","t","e","r">>

IMAGE_URL_EXTENSIONS ==
    { <<".","j","p","g">>, <<".","j","p","e","g">>, <<".","p","n","g">>,
      <<".","w","e","b","p">>, <<".","g","i","f">>, <<".","b","m","p">> }

VIDEO_URL_EXTENSIONS ==
    { <<".","m","p","4">>, <<".","m","o","v">>, <<".","w","e","b","m">>,
      <<".","m","k","v">>, <<".","a","v","i">>, <<".","m","3","u","8">> }

HTTP_PREFIXES ==
    { <<"h","t","t","p",":","/","/">>, <<"h","t","t","p","s",":","/","/">> }

IMAGE_CT_PREFIX == <<"i","m","a","g","e","/">>

VIDEO_CT_PREFIX == <<"v","i","d","e","o","/">>

RECURSIVE _extract_strings(_)
RECURSIVE ExtractAll(_)
\* flattened.extend(_extract_strings(nested)) for nested in the values
ExtractAll(vals) ==
    IF vals = <<>> THEN <<>>
    ELSE _extract_strings(Head(vals)) \o ExtractAll(Tail(vals))

_extract_strings(value) ==
    CASE value.tag = "none"  -> <<>>
      [] value.tag = "str"   -> <<value.s>>
      [] value.tag = "dict"  -> ExtractAll(value.items)
      [] value.tag = "list"  -> ExtractAll(value.items)
      [] OTHER               -> <<value.s>>

\* metadata_indicates_hamster without the lower() of line 64
metadata_indicates_hamster_NoLower(parts) ==
    LET searchable_text == JoinSpace(_extract_strings(ListV(parts)))
        normalized      == SubNonAlnumRuns(searchable_text, FALSE)
        tokens          == SeqRange(Split(normalized))
    IN  IF \E keyword \in HAMSTER_KEYWORDS : Contains(searchable_text, keyword)
        THEN TRUE
        ELSE HAMPTER \in tokens

\* parts: the sequence of values passed as *parts
metadata_indicates_hamster(parts) ==
    LET searchable_text == Lower(JoinSpace(_extract_strings(ListV(parts))))
        normalized      == SubNonAlnumRuns(searchable_text, FALSE)
        tokens          == SeqRange(Split(normalized))
    IN  IF \E keyword \in HAMSTER_KEYWORDS : Contains(searchable_text, keyword)
        THEN TRUE
        ELSE HAMPTER \in tokens

is_image_candidate(media_url, content_type, is_video_embed) ==
    LET lowered_url          == Lower(OrEmpty(media_url))
        lowered_content_type == Lower(OrEmpty(content_type))
        url_without_query    == BeforeFirst(lowered_url, "?")
    IN  IF is_video_embed THEN FALSE
        ELSE IF ~ \E p \in HTTP_PREFIXES : StartsWith(lowered_url, p) THEN FALSE
        ELSE IF StartsWith(lowered_content_type, IMAGE_CT_PREFIX) THEN TRUE
        ELSE IF StartsWith(lowered_content_type, VIDEO_CT_PREFIX) THEN FALSE
        ELSE IF \E e \in VIDEO_URL_EXTENSIONS : EndsWith(url_without_query, e) THEN FALSE
        ELSE \E e \in IMAGE_URL_EXTENSIONS : EndsWith(url_without_query, e)

\* ------------------------------------------------------------------------
\* Messages
\*   attachment: [url, content_type, filename, description, proxy_url]
\*   embed:      [type, image, thumbnail, video, url, title, description,
\*                provider, author, footer]
\*   the image, thumbnail and video of an embed are proxies: has says whether
\*   the proxy carries any attribute (its truth value), url is its url or None
\* ------------------------------------------------------------------------
NoProxy == [has |-> FALSE, url |-> None]

Proxy(u) == [has |-> TRUE, url |-> u]

T_GIFV == <<"g","i","f","v">>

T_IMAGE == <<"i","m","a","g","e">>

T_VIDEO == <<"v","i","d","e","o">>

T_RICH == <<"r","i","c","h">>

EMBED_TYPES == {T_GIFV, T_IMAGE, T_VIDEO, T_RICH}

ProxyDict(p) == DictV(<<"url">>, <<OptV(p.url)>>)

NameDict(k, text) == DictV(<<k>>, <<StrV(text)>>)

\* embed.to_dict(): the fields the embed carries, as a nested mapping
Embed_to_dict(e) ==
    LET entry(k, present, v) == IF present THEN <<[k |-> k, v |-> v]>> ELSE <<>>
        entries ==
               entry("footer",      e.footer # None,    NameDict("text", e.footer))
            \o entry("image",       e.image.has,        ProxyDict(e.image))
            \o entry("thumbnail",   e.thumbnail.has,    ProxyDict(e.thumbnail))
            \o entry("video",       e.video.has,        ProxyDict(e.video))
            \o entry("provider",    e.provider # None,  NameDict("name", e.provider))
            \o entry("author",      e.author # None,    NameDict("name", e.author))
            \o entry("type",        TRUE,               StrV(e.type))
            \o entry("description", ~Falsy(e.description), OptV(e.description))
            \o entry("url",         ~Falsy(e.url),      OptV(e.url))
            \o entry("title",       ~Falsy(e.title),    OptV(e.title))
    IN  DictV([i \in 1..Len(entries) |-> entries[i].k],
              [i \in 1..Len(entries) |-> entries[i].v])

AttachmentCandidate(message, attachment) ==
    [ url            |-> attachment.url,
      content_type   |-> attachment.content_type,
      is_video_embed |-> FALSE,
      metadata       |-> << StrV(message.content),
                            OptV(attachment.filename),
                            OptV(attachment.description),
                            OptV(attachment.proxy_url),
                            OptV(attachment.content_type) >> ]

\* the choice falling through to the next field when a present field has no URL
EmbedChoice_FirstWithUrl(embed) ==
    IF ~Falsy(embed.image.url) THEN [url |-> embed.image.url, is_video_embed |-> FALSE]
    ELSE IF ~Falsy(embed.thumbnail.url)
         THEN [url |-> embed.thumbnail.url, is_video_embed |-> FALSE]
    ELSE IF ~Falsy(embed.video.url)
         THEN [url |-> embed.video.url, is_video_embed |-> TRUE]
    ELSE IF ~Falsy(embed.url)
         THEN [url |-> embed.url, is_video_embed |-> embed.type = T_VIDEO]
    ELSE [url |-> None, is_video_embed |-> FALSE]

\* the url and is_video_embed chosen at lines 128-140
EmbedChoice(embed) ==
    IF embed.image.has THEN [url |-> embed.image.url, is_video_embed |-> FALSE]
    ELSE IF embed.thumbnail.has
         THEN [url |-> embed.thumbnail.url, is_video_embed |-> FALSE]
    ELSE IF embed.video.has THEN [url |-> embed.video.url, is_video_embed |-> TRUE]
    ELSE IF ~Falsy(embed.url)
         THEN [url |-> embed.url, is_video_embed |-> embed.type = T_VIDEO]
    ELSE [url |-> None, is_video_embed |-> FALSE]

EmbedCandidate(message, embed) ==
    [ url            |-> EmbedChoice(embed).url,
      content_type   |-> None,
      is_video_embed |-> EmbedChoice(embed).is_video_embed,
      metadata       |-> << StrV(message.content),
                            OptV(embed.title),
                            OptV(embed.description),
                            OptV(embed.url),
                            StrV(embed.type),
                            OptV(embed.provider),
                            OptV(embed.author),
                            OptV(embed.footer),
                            Embed_to_dict(embed) >> ]

CandidateUrls(candidates) == {candidates[i].url : i \in 1..Len(candidates)}

\* the loop over message.attachments, from attachment k on
RECURSIVE CollectAttachments(_, _, _)
CollectAttachments(message, k, candidates) ==
    IF k > Len(message.attachments) THEN candidates
    ELSE LET attachment == message.attachments[k]
             media_url  == attachment.url
         IN  IF Falsy(media_url) \/ media_url \in CandidateUrls(candidates)
             THEN CollectAttachments(message, k + 1, candidates)
             ELSE CollectAttachments(message, k + 1,
                      Append(candidates, AttachmentCandidate(message, attachment)))

\* the loop over message.embeds, from embed k on
RECURSIVE CollectEmbeds(_, _, _)
CollectEmbeds(message, k, candidates) ==
    IF k > Len(message.embeds) THEN candidates
    ELSE LET embed     == message.embeds[k]
             media_url == EmbedChoice(embed).url
         IN  IF embed.type \notin EMBED_TYPES
             THEN CollectEmbeds(message, k + 1, candidates)
             ELSE IF Falsy(media_url)
             THEN CollectEmbeds(message, k + 1, candidates)
             ELSE IF media_url \in CandidateUrls(candidates)
             THEN CollectEmbeds(message, k + 1, candidates)
             ELSE CollectEmbeds(message, k + 1,
                      Append(candidates, EmbedCandidate(message, embed)))

\* collect_media_candidates with a seen_urls set per loop instead of one
collect_media_candidates_SeenPerLoop(message) ==
    CollectAttachments(message, 1, <<>>) \o CollectEmbeds(message, 1, <<>>)

collect_media_candidates(message) ==
    CollectEmbeds(message, 1, CollectAttachments(message, 1, <<>>))

\* ------------------------------------------------------------------------
\* The vision request (analyze_image_for_hamster)
\*   outcome of one request: [net, status, data]
\*     net = "post_error"  session.post raises aiohttp.ClientError
\*     net = "timeout"     the service never answers: the session's total
\*                         timeout raises asyncio.TimeoutError
\*     net = "read_error"  the status arrived, reading the body raises
\*     net = "bad_json"    the body is not JSON: resp.json() raises
\*     net = "ok"          the body was read; data is the decoded JSON
\* ------------------------------------------------------------------------
HTTP_OK == 200

Ok(v) == [exc |-> "", v |-> v]

Exc(name) == [exc |-> name, v |-> NoneV]

\* value[key] for a string key
GetKey(value, key) ==
    IF value.tag = "dict"
    THEN IF \E i \in 1..Len(value.keys) : value.keys[i] = key
         THEN Ok(value.items[CHOOSE i \in 1..Len(value.keys) : value.keys[i] = key])
         ELSE Exc("KeyError")
    ELSE Exc("TypeError")

\* value[0]
GetFirst(value) ==
    CASE value.tag = "list" ->
            IF value.items = <<>> THEN Exc("IndexError") ELSE Ok(value.items[1])
      [] value.tag = "str"  ->
            IF value.s = <<>> THEN Exc("IndexError") ELSE Ok(StrV(<<value.s[1]>>))
      [] value.tag = "dict" -> Exc("KeyError")
      [] OTHER              -> Exc("TypeError")

\* data["choices"][0]["message"]["content"]
DigContent(data) ==
    LET a == GetKey(data, "choices")
        b == IF a.exc = "" THEN GetFirst(a.v) ELSE a
        c == IF b.exc = "" THEN GetKey(b.v, "message") ELSE b
        d == IF c.exc = "" THEN GetKey(c.v, "content") ELSE c
    IN  d

YES == <<"Y","E","S">>

\* the parse answering true when the answer merely starts with YES
ParseAnswer_Prefix(content) == StartsWith(Upper(Strip(content)), YES)

\* lines 213-216 for a str content
ParseAnswer(content) ==
    LET answer      == Upper(Strip(content))
        first_token == Split(SubNonUpper(answer))
    IN  first_token # <<>> /\ first_token[1] = YES

Returns(b) == [raised |-> FALSE, exc |-> "", value |-> b]

Raises(name) == [raised |-> TRUE, exc |-> name, value |-> FALSE]

\* lines 211-219: the try block over the decoded body
ParseResponse(data) ==
    LET d == DigContent(data)
    IN  IF d.exc \in {"KeyError", "IndexError"} THEN Returns(FALSE)
        ELSE IF d.exc # "" THEN Raises(d.exc)
        ELSE IF d.v.tag # "str" THEN Raises("AttributeError")
        ELSE Returns(ParseAnswer(d.v.s))

\* analyze_image_for_hamster answering true on a non-success status
analyze_image_for_hamster_FailClosed(outcome) ==
    CASE outcome.net = "post_error" -> Raises("ClientError")
      [] outcome.net = "timeout"    -> Raises("TimeoutError")
      [] outcome.net = "read_error" -> Raises("ClientError")
      [] outcome.status # HTTP_OK   -> Returns(TRUE)
      [] outcome.net = "bad_json"   -> Raises("ContentTypeError")
      [] OTHER                      -> ParseResponse(outcome.data)

\* lines 199-219: what the call returns or raises once the request ended
\* with the given outcome
analyze_image_for_hamster(outcome) ==
    CASE outcome.net = "post_error" -> Raises("ClientError")
      [] outcome.net = "timeout"    -> Raises("TimeoutError")
      [] outcome.net = "read_error" -> Raises("ClientError")
      [] outcome.status # HTTP_OK   -> Returns(FALSE)
      [] outcome.net = "bad_json"   -> Raises("ContentTypeError")
      [] OTHER                      -> ParseResponse(outcome.data)

\* delete_hamster_message reporting success when the delete was forbidden
delete_hamster_message_ForbiddenTrue(result) ==
    CASE result = "ok"            -> TRUE
      [] result = "Forbidden"     -> TRUE
      [] result = "NotFound"      -> FALSE
      [] result = "HTTPException" -> FALSE

\* lines 222-238: the value returned for each result of message.delete()
delete_hamster_message(result) ==
    CASE result = "ok"            -> TRUE
      [] result = "Forbidden"     -> FALSE
      [] result = "NotFound"      -> FALSE
      [] result = "HTTPException" -> FALSE

\* notify_hamster_deleted without the handler for discord.Forbidden
notify_hamster_deleted_NoForbidden(result) ==
    CASE result = "ok"            -> Returns(None)
      [] result = "Forbidden"     -> Raises("Forbidden")
      [] result = "HTTPException" -> Returns(None)

\* lines 241-248: every result of channel.send() is handled; nothing is
\* raised, and the function has no return statement
notify_hamster_deleted(result) ==
    CASE result = "ok"            -> Returns(None)
      [] result = "Forbidden"     -> Returns(None)
      [] result = "HTTPException" -> Returns(None)

\* ------------------------------------------------------------------------
\* Inputs
\* ------------------------------------------------------------------------
MaxAttachments == 2

MaxEmbeds == 1

\* image by content type: goes to the vision call
A_cat ==
    [ url          |-> <<"h","t","t","p","s",":","/","/","x","/","c","a","t",".","p","n","g">>,
      content_type |-> <<"i","m","a","g","e","/","p","n","g">>,
      filename     |-> <<"c","a","t",".","p","n","g">>,
      description  |-> None,
      proxy_url    |-> None ]

\* declared video with an image extension in the URL
A_clip ==
    [ url          |-> <<"h","t","t","p","s",":","/","/","x","/","c","l","i","p",".","p","n","g">>,
      content_type |-> <<"v","i","d","e","o","/","m","p","4">>,
      filename     |-> <<"c","l","i","p",".","p","n","g">>,
      description  |-> None,
      proxy_url    |-> None ]

\* keyword in the filename, upper case
A_ham ==
    [ url          |-> <<"h","t","t","p","s",":","/","/","x","/","h",".","p","n","g">>,
      content_type |-> <<"i","m","a","g","e","/","p","n","g">>,
      filename     |-> <<"H","A","M","S","T","E","R",".","p","n","g">>,
      description  |-> None,
      proxy_url    |-> None ]

\* neither image nor video
A_doc ==
    [ url          |-> <<"h","t","t","p","s",":","/","/","x","/","d","o","c",".","p","d","f">>,
      content_type |-> None,
      filename     |-> <<"d","o","c",".","p","d","f">>,
      description  |-> None,
      proxy_url    |-> None ]

AttachmentPool == {A_cat, A_clip, A_ham, A_doc}

\* image by extension: upper case, with a query string
E_rich ==
    [ type        |-> <<"r","i","c","h">>,
      image       |-> Proxy(<<"H","T","T","P","S",":","/","/","x","/","E",".","P","N","G","?","v","=","a",".","m","p","4">>),
      thumbnail   |-> NoProxy,
      video       |-> NoProxy,
      url         |-> None,
      title       |-> None,
      description |-> None,
      provider    |-> None,
      author      |-> None,
      footer      |-> None ]

E_video ==
    [ type        |-> <<"v","i","d","e","o">>,
      image       |-> NoProxy,
      thumbnail   |-> NoProxy,
      video       |-> Proxy(<<"h","t","t","p","s",":","/","/","x","/","v",".","m","p","4">>),
      url         |-> <<"h","t","t","p","s",":","/","/","x","/","w","a","t","c","h">>,
      title       |-> None,
      description |-> None,
      provider    |-> None,
      author      |-> None,
      footer      |-> None ]

E_gifv ==
    [ type        |-> <<"g","i","f","v">>,
      image       |-> NoProxy,
      thumbnail   |-> Proxy(<<"h","t","t","p","s",":","/","/","x","/","t",".","p","n","g">>),
      video       |-> Proxy(<<"h","t","t","p","s",":","/","/","x","/","g",".","m","p","4">>),
      url         |-> None,
      title       |-> None,
      description |-> None,
      provider    |-> None,
      author      |-> None,
      footer      |-> None ]

E_hampter ==
    [ type        |-> <<"r","i","c","h">>,
      image       |-> NoProxy,
      thumbnail   |-> NoProxy,
      video       |-> NoProxy,
      url         |-> <<"h","t","t","p","s",":","/","/","x","/","p","a","g","e">>,
      title       |-> <<"h","a","m","p","t","e","r"," ","t","i","m","e">>,
      description |-> None,
      provider    |-> None,
      author      |-> None,
      footer      |-> None ]

E_link ==
    [ type        |-> <<"l","i","n","k">>,
      image       |-> NoProxy,
      thumbnail   |-> NoProxy,
      video       |-> NoProxy,
      url         |-> <<"h","t","t","p","s",":","/","/","x","/","l",".","p","n","g">>,
      title       |-> None,
      description |-> None,
      provider    |-> None,
      author      |-> None,
      footer      |-> None ]

\* same URL as the attachment A_cat
E_dup ==
    [ type        |-> <<"i","m","a","g","e">>,
      image       |-> NoProxy,
      thumbnail   |-> NoProxy,
      video       |-> NoProxy,
      url         |-> <<"h","t","t","p","s",":","/","/","x","/","c","a","t",".","p","n","g">>,
      title       |-> None,
      description |-> None,
      provider    |-> None,
      author      |-> None,
      footer      |-> None ]

E_vurl ==
    [ type        |-> <<"v","i","d","e","o">>,
      image       |-> NoProxy,
      thumbnail   |-> NoProxy,
      video       |-> NoProxy,
      url         |-> <<"h","t","t","p","s",":","/","/","x","/","w",".","p","n","g">>,
      title       |-> None,
      description |-> None,
      provider    |-> None,
      author      |-> None,
      footer      |-> None ]

E_none ==
    [ type        |-> <<"r","i","c","h">>,
      image       |-> NoProxy,
      thumbnail   |-> NoProxy,
      video       |-> NoProxy,
      url         |-> None,
      title       |-> <<"h","i">>,
      description |-> None,
      provider    |-> None,
      author      |-> None,
      footer      |-> None ]

EmbedPool == {E_rich, E_video, E_gifv, E_hampter, E_link, E_dup, E_vurl, E_none}

ContentPool == { <<"h","i">>, <<"m","y"," ","h","a","m","m","y">> }

SeqsUpTo(S, n) == UNION {[1..k -> S] : k \in 0..n}

\* author_is_self: message.author == client.user; author_bot: message.author.bot
AuthorPool ==
    { [author_is_self |-> FALSE, author_bot |-> FALSE],
      [author_is_self |-> FALSE, author_bot |-> TRUE],
      [author_is_self |-> TRUE,  author_bot |-> TRUE] }

Messages ==
    { [ author_is_self |-> a.author_is_self,
        author_bot     |-> a.author_bot,
        content        |-> c,
        attachments    |-> atts,
        embeds         |-> embs ] :
      a \in AuthorPool, c \in ContentPool,
      atts \in SeqsUpTo(AttachmentPool, MaxAttachments),
      embs \in SeqsUpTo(EmbedPool, MaxEmbeds) }

NoMessage ==
    [ author_is_self |-> FALSE, author_bot |-> FALSE, content |-> <<>>,
      attachments |-> <<>>, embeds |-> <<>> ]

\* the decoded body {"choices": [{"message": {"content": v}}]}
Body(v) ==
    DictV(<<"choices">>,
          <<ListV(<<DictV(<<"message">>, <<DictV(<<"content">>, <<v>>)>>)>>)>>)

ANS_YES == <<"Y","E","S">>

ANS_Yes_clearly == <<"Y","e","s",","," ","c","l","e","a","r","l","y">>

ANS_NO_mouse == <<"N","O"," ","-"," ","j","u","s","t"," ","a"," ","m","o","u","s","e">>

ANS_YESTERDAY == <<"Y","E","S","T","E","R","D","A","Y">>

ANS_no_yes == <<"n","o","."," ","Y","E","S">>

ANS_empty == <<>>

ANS_yes_ws == <<" "," ","y","e","s","\n">>

\* the answers the moderation bot's vision calls may get; the parse of every
\* answer is the subject of SpecParse
VisionAnswers == {ANS_Yes_clearly, ANS_yes_ws, ANS_NO_mouse, ANS_YESTERDAY}

AnswerPool == {ANS_YES, ANS_Yes_clearly, ANS_NO_mouse, ANS_YESTERDAY, ANS_no_yes, ANS_empty, ANS_yes_ws}

MalformedBodies ==
    { DictV(<<>>, <<>>),                                   \* no "choices"
      DictV(<<"choices">>, <<ListV(<<>>)>>),               \* empty choices
      Body(NoneV),                                         \* content is null
      ListV(<<>>) }                                        \* body is a list

Outcome(net, status, data) == [net |-> net, status |-> status, data |-> data]

VisionOutcomes ==
         {Outcome("post_error", 0, NoneV), Outcome("timeout", 0, NoneV)}
    \cup {Outcome("read_error", 500, NoneV)}
    \cup {Outcome("bad_json", 200, NoneV)}
    \cup {Outcome("ok", 429, NoneV)}
    \cup {Outcome("ok", 200, Body(StrV(a))) : a \in VisionAnswers}
    \cup {Outcome("ok", 200, d) : d \in MalformedBodies}

NoOutcome == Outcome("-", 0, NoneV)

DeleteResults == {"ok", "Forbidden", "NotFound", "HTTPException"}

SendResults == {"ok", "Forbidden", "HTTPException"}

\* ------------------------------------------------------------------------
\* State: one task per inbound message event
\* ------------------------------------------------------------------------
Tasks == {1, 2}

VARIABLES
    api_key,     \* OPENROUTER_API_KEY is set (fixed at process start)
    msg,         \* msg[t]: the message task t handles
    pc,          \* pc[t]: "absent", "start", "vision" (awaiting the response of
                 \*        the vision request), "body" (awaiting its body),
                 \*        "closing" (leaving the with blocks), "delete", "notify",
                 \*        "done" (on_message returned), "raised" (an exception left it)
    candidates,  \* candidates[t]: media_candidates
    idx,         \* idx[t]: position of the loop in media_candidates
    deleted,     \* deleted[t]: the local deleted of on_message
    resp,        \* resp[t]: what is known of the latest vision request of task t
    log,         \* log[t]: what task t did, in order
    removed,     \* messages (by task) the platform has deleted for the bot
    channel,     \* notices the platform has posted, in order (by task)
    http,        \* aiohttp.ClientSession objects: how many were created, closed
    arg,         \* [f, x]: the function under study and its argument
    ret,         \* [done, val]: whether it was applied, and its result
    grok         \* the summarizer bot (src/grok_bot.py) handling one message

vars == <<api_key, msg, pc, candidates, idx, deleted, resp, log, removed, channel,
          http, arg, ret, grok>>

\* the state of the moderation bot
botvars ==
    <<api_key, msg, pc, candidates, idx, deleted, resp, log, removed, channel, http>>

NoArg == [f |-> "none", x |-> <<>>]

NoRet == [done |-> FALSE, val |-> <<>>]

NoGrok == [pc |-> "absent"]

\* req: the step issued an HTTP request to the vision service
Event(op, i, res, req) == [op |-> op, i |-> i, res |-> res, req |-> req]

\* the check of line 259 without message.author.bot
Rejected_SelfOnly(message) == message.author_is_self

\* line 259
Rejected(message) == message.author_is_self \/ message.author_bot

\* the branches of lines 270-279 with the image test before the metadata test
Branch_VisionFirst(candidate) ==
    IF is_image_candidate(candidate.url, candidate.content_type,
                          candidate.is_video_embed) THEN "vision"
    ELSE IF metadata_indicates_hamster(candidate.metadata) THEN "metadata"
    ELSE "skip"

\* lines 270-279: which branch a candidate takes
Branch(candidate) ==
    IF metadata_indicates_hamster(candidate.metadata) THEN "metadata"
    ELSE IF is_image_candidate(candidate.url, candidate.content_type,
                               candidate.is_video_embed) THEN "vision"
    ELSE "skip"

At(p, i, lg) == [pc |-> p, idx |-> i, log |-> lg]

\* lines 264-281 from candidate i on, up to the next await or the return:
\* the for loop runs without suspending while candidates are negative on
\* metadata and either skipped or answered false at once (no API key)
RECURSIVE RunLoop(_, _, _, _)
RunLoop(cands, i, lg, key) ==
    IF i > Len(cands) THEN At("done", i, lg)
    ELSE LET b == Branch(cands[i])
         IN  CASE b = "metadata" ->
                    At("delete", i, Append(lg, Event("metadata", i, "hit", FALSE)))
               [] b = "vision" ->
                    LET lg1 == Append(lg, Event("metadata", i, "miss", FALSE))
                    IN  IF key THEN At("vision", i, lg1)
                        ELSE RunLoop(cands, i + 1,
                                 Append(lg1, Event("analyze", i, "false", FALSE)),
                                 key)
               [] OTHER ->
                    RunLoop(cands, i + 1,
                        lg \o << Event("metadata", i, "miss", FALSE),
                                 Event("skip", i, "false", FALSE) >>,
                        key)

\* lines 281-285: is_hamster decides between acting and the next candidate
AfterClassify(is_hamster, cands, i, lg, key) ==
    IF is_hamster THEN At("delete", i, lg) ELSE RunLoop(cands, i + 1, lg, key)

\* line 283: the notice is sent only if deleted
AfterDelete(isDeleted, i, lg) ==
    IF isDeleted THEN At("notify", i, lg) ELSE At("done", i, lg)

\* the moderation action without the return of line 285
AfterAction_NoReturn(cands, i, lg, key) == RunLoop(cands, i + 1, lg, key)

\* line 285: return after the moderation action
AfterAction(cands, i, lg, key) == At("done", i, lg)

\* line 199: a call that reaches the request creates its own ClientSession
SessionEntered(h, nxt) ==
    IF nxt.pc = "vision" THEN [h EXCEPT !.created = @ + 1] ELSE h

\* line 199: leaving the async with block closes that session
SessionLeft(h) == [h EXCEPT !.closed = @ + 1]

Goto(t, nxt) ==
    /\ pc'  = [pc  EXCEPT ![t] = nxt.pc]
    /\ idx' = [idx EXCEPT ![t] = nxt.idx]
    /\ log' = [log EXCEPT ![t] = nxt.log]

\* on_message with media_candidates kept in one list shared by all tasks
OnMessage_SharedCandidates(t) ==
    /\ pc[t] = "start"
    /\ IF Rejected(msg[t])
       THEN /\ Goto(t, At("done", 0, log[t]))
            /\ UNCHANGED <<candidates, http>>
       ELSE LET cands == collect_media_candidates(msg[t])
                nxt   == RunLoop(cands, 1, log[t], api_key)
            IN  /\ candidates' = [u \in Tasks |-> cands]
                /\ http' = SessionEntered(http, nxt)
                /\ Goto(t, nxt)
    /\ UNCHANGED <<api_key, msg, deleted, resp, removed, channel, arg, ret, grok>>

\* on_message, lines 257-264: entry, own/bot check, candidate extraction
OnMessage(t) ==
    /\ pc[t] = "start"
    /\ IF Rejected(msg[t])
       THEN /\ Goto(t, At("done", 0, log[t]))
            /\ UNCHANGED <<candidates, http>>
       ELSE LET cands == collect_media_candidates(msg[t])
                nxt   == RunLoop(cands, 1, log[t], api_key)
            IN  /\ candidates' = [candidates EXCEPT ![t] = cands]
                /\ http' = SessionEntered(http, nxt)
                /\ Goto(t, nxt)
    /\ UNCHANGED <<api_key, msg, deleted, resp, removed, channel, arg, ret, grok>>

\* the request failed before a response arrived
PostFailures == {"post_error", "timeout"}

\* what the await of line 201 may give: a failure, or a response whose status
\* is known and whose body is still to be read
PostResults ==
         {o \in VisionOutcomes : o.net \in PostFailures}
    \cup {Outcome("headers", o.status, NoneV) :
             o \in {v \in VisionOutcomes : v.net \notin PostFailures}}

\* line 201: the awaited session.post ends
VisionResponds(t) ==
    /\ pc[t] = "vision"
    /\ \E p \in PostResults :
          /\ resp' = [resp EXCEPT ![t] = p]
          /\ pc' = [pc EXCEPT ![t] = IF p.net \in PostFailures THEN "closing" ELSE "body"]
    /\ UNCHANGED <<api_key, msg, candidates, idx, deleted, log, removed, channel,
                   http, arg, ret, grok>>

\* lines 205 and 209: the awaited resp.text() or resp.json() ends, or the
\* session's total timeout runs out during it
VisionBodyReturns(t) ==
    /\ pc[t] = "body"
    /\ \E outcome \in VisionOutcomes :
          /\ \/ outcome.net = "timeout"
             \/ outcome.net \notin PostFailures /\ outcome.status = resp[t].status
          /\ resp' = [resp EXCEPT ![t] = outcome]
    /\ pc' = [pc EXCEPT ![t] = "closing"]
    /\ UNCHANGED <<api_key, msg, candidates, idx, deleted, log, removed, channel,
                   http, arg, ret, grok>>

\* lines 199-201 and 275: the with blocks are left (the response is released
\* and the session closed, both awaited), the call returns or raises, and
\* on_message runs on to its next await
VisionReturns(t) ==
    /\ pc[t] = "closing"
    /\ LET r  == analyze_image_for_hamster(resp[t])
           lg == Append(log[t],
                    Event("analyze", idx[t],
                          IF r.raised THEN "raise"
                          ELSE IF r.value THEN "true" ELSE "false",
                          TRUE))
           nxt == IF r.raised THEN At("raised", idx[t], lg)
                  ELSE AfterClassify(r.value, candidates[t], idx[t], lg, api_key)
       IN  /\ resp' = IF nxt.pc = "vision" THEN [resp EXCEPT ![t] = NoOutcome] ELSE resp
           /\ http' = SessionEntered(SessionLeft(http), nxt)
           /\ Goto(t, nxt)
    /\ UNCHANGED <<api_key, msg, candidates, deleted, removed, channel, arg, ret, grok>>

\* line 282: the awaited delete ends
DeleteReturns(t) ==
    /\ pc[t] = "delete"
    /\ \E result \in DeleteResults :
          LET d  == delete_hamster_message(result)
              lg == Append(log[t], Event("delete", idx[t], result, FALSE))
          IN  /\ deleted' = [deleted EXCEPT ![t] = d]
              /\ removed' = IF result = "ok" THEN removed \cup {t} ELSE removed
              /\ LET nxt == AfterDelete(d, idx[t], lg)
                 IN  IF nxt.pc = "done"
                     THEN Goto(t, AfterAction(candidates[t], idx[t], lg, api_key))
                     ELSE Goto(t, nxt)
    /\ UNCHANGED <<api_key, msg, candidates, resp, channel, http, arg, ret, grok>>

\* line 284: the awaited notice ends
NotifyReturns(t) ==
    /\ pc[t] = "notify"
    /\ \E result \in SendResults :
          LET n  == notify_hamster_deleted(result)
              lg == Append(log[t], Event("send", idx[t], result, FALSE))
          IN  /\ channel' = IF result = "ok" THEN Append(channel, t) ELSE channel
              /\ IF n.raised
                 THEN Goto(t, At("raised", idx[t], lg))
                 ELSE Goto(t, AfterAction(candidates[t], idx[t], lg, api_key))
    /\ UNCHANGED <<api_key, msg, candidates, deleted, resp, removed, http, arg, ret, grok>>

\* the parts of the state a specification does not use
Idle ==
    /\ arg = NoArg
    /\ ret = NoRet
    /\ grok = NoGrok

\* the moderation bot with the message m[t] delivered to each task t of ts
BotInit(ts, m, key) ==
    /\ api_key = key
    /\ msg = [t \in Tasks |-> IF t \in ts THEN m[t] ELSE NoMessage]
    /\ pc = [t \in Tasks |-> IF t \in ts THEN "start" ELSE "absent"]
    /\ candidates = [t \in Tasks |-> <<>>]
    /\ idx = [t \in Tasks |-> 0]
    /\ deleted = [t \in Tasks |-> FALSE]
    /\ resp = [t \in Tasks |-> NoOutcome]
    /\ log = [t \in Tasks |-> <<>>]
    /\ removed = {}
    /\ channel = <<>>
    /\ http = [created |-> 0, closed |-> 0]

\* one message event, handled by task 1
Init ==
    /\ api_key \in BOOLEAN
    /\ \E m \in Messages : msg = [t \in Tasks |-> IF t = 1 THEN m ELSE NoMessage]
    /\ pc = [t \in Tasks |-> IF t = 1 THEN "start" ELSE "absent"]
    /\ Idle
    /\ candidates = [t \in Tasks |-> <<>>]
    /\ idx = [t \in Tasks |-> 0]
    /\ deleted = [t \in Tasks |-> FALSE]
    /\ resp = [t \in Tasks |-> NoOutcome]
    /\ log = [t \in Tasks |-> <<>>]
    /\ removed = {}
    /\ channel = <<>>
    /\ http = [created |-> 0, closed |-> 0]

Next ==
    \E t \in Tasks :
        \/ OnMessage(t)
        \/ VisionResponds(t)
        \/ VisionBodyReturns(t)
        \/ VisionReturns(t)
        \/ DeleteReturns(t)
        \/ NotifyReturns(t)

Spec == Init /\ [][Next]_vars

\* ------------------------------------------------------------------------
\* collect_media_candidates on its own: a wider pool of attachments and embeds
\* ------------------------------------------------------------------------
\* the URL of A_cat again, with another filename
A_cat2 ==
    [ url          |-> <<"h","t","t","p","s",":","/","/","x","/","c","a","t",".","p","n","g">>,
      content_type |-> <<"i","m","a","g","e","/","p","n","g">>,
      filename     |-> <<"b",".","p","n","g">>,
      description  |-> None,
      proxy_url    |-> None ]

\* an image field whose URL has no extension
E_noext ==
    [ type        |-> <<"r","i","c","h">>,
      image       |-> Proxy(<<"h","t","t","p","s",":","/","/","x","/","i","m","g">>),
      thumbnail   |-> NoProxy,
      video       |-> NoProxy,
      url         |-> None,
      title       |-> None,
      description |-> None,
      provider    |-> None,
      author      |-> None,
      footer      |-> None ]

\* image, thumbnail and video present, each with its own URL
E_all ==
    [ type        |-> <<"r","i","c","h">>,
      image       |-> Proxy(<<"h","t","t","p",":","/","/","a",".","p","n","g">>),
      thumbnail   |-> Proxy(<<"h","t","t","p",":","/","/","b",".","p","n","g">>),
      video       |-> Proxy(<<"h","t","t","p",":","/","/","c",".","m","p","4">>),
      url         |-> None,
      title       |-> None,
      description |-> None,
      provider    |-> None,
      author      |-> None,
      footer      |-> None ]

\* thumbnail and own URL
E_thumb ==
    [ type        |-> <<"i","m","a","g","e">>,
      image       |-> NoProxy,
      thumbnail   |-> Proxy(<<"h","t","t","p","s",":","/","/","x","/","t","3",".","p","n","g">>),
      video       |-> NoProxy,
      url         |-> <<"h","t","t","p","s",":","/","/","x","/","t","h">>,
      title       |-> None,
      description |-> None,
      provider    |-> None,
      author      |-> None,
      footer      |-> None ]

\* a video object without a url (width and height only), and an own URL
E_vnourl ==
    [ type        |-> <<"r","i","c","h">>,
      image       |-> NoProxy,
      thumbnail   |-> NoProxy,
      video       |-> Proxy(None),
      url         |-> <<"h","t","t","p","s",":","/","/","x","/","p","a","g","e","2">>,
      title       |-> None,
      description |-> None,
      provider    |-> None,
      author      |-> None,
      footer      |-> None ]

\* a thumbnail with the URL that A_cat and E_dup also carry
E_dupthumb ==
    [ type        |-> <<"r","i","c","h">>,
      image       |-> NoProxy,
      thumbnail   |-> Proxy(<<"h","t","t","p","s",":","/","/","x","/","c","a","t",".","p","n","g">>),
      video       |-> NoProxy,
      url         |-> None,
      title       |-> None,
      description |-> None,
      provider    |-> None,
      author      |-> None,
      footer      |-> None ]

CollectAttachmentPool == {A_cat, A_cat2, A_doc}

CollectEmbedPool ==
    {E_rich, E_video, E_gifv, E_link, E_dup, E_vurl, E_none,
     E_noext, E_all, E_thumb, E_vnourl, E_dupthumb}

\* embeds of one message given to collect_media_candidates on its own
MaxCollectEmbeds == 2

HI == <<"h","i">>

HumanMessage(c, atts, embs) ==
    [ author_is_self |-> FALSE, author_bot |-> FALSE, content |-> c,
      attachments |-> atts, embeds |-> embs ]

CollectMessages ==
    { HumanMessage(HI, atts, embs) :
        atts \in SeqsUpTo(CollectAttachmentPool, MaxAttachments),
        embs \in SeqsUpTo(CollectEmbedPool, MaxCollectEmbeds) }

\* the moderation bot is not running
BotIdle == BotInit({}, [t \in Tasks |-> NoMessage], FALSE)

InitCollect ==
    /\ BotIdle
    /\ grok = NoGrok
    /\ \E m \in CollectMessages : arg = [f |-> "collect", x |-> m]
    /\ ret = NoRet

\* line 262: media_candidates = collect_media_candidates(message)
CallCollect ==
    /\ arg.f = "collect"
    /\ ~ret.done
    /\ ret' = [done |-> TRUE, val |-> collect_media_candidates(arg.x)]
    /\ UNCHANGED <<botvars, arg, grok>>

NextCollect == CallCollect

SpecCollect == InitCollect /\ [][NextCollect]_vars

\* ------------------------------------------------------------------------
\* Properties
\* ------------------------------------------------------------------------
Handled == {t \in Tasks : pc[t] # "absent"}

Pos(t) == 1..Len(log[t])

EventsOf(t, op) == {k \in Pos(t) : log[t][k].op = op}

\* task t is inside a call of analyze_image_for_hamster
InCall(t) == pc[t] \in {"vision", "body", "closing"}

\* calls issued so far: those that ended (logged) and the one in flight
VisionCalls(t) ==
    Cardinality({k \in EventsOf(t, "analyze") : log[t][k].req})
        + (IF InCall(t) THEN 1 ELSE 0)

DeleteCalls(t) ==
    Cardinality(EventsOf(t, "delete")) + (IF pc[t] = "delete" THEN 1 ELSE 0)

SendCalls(t) ==
    Cardinality(EventsOf(t, "send")) + (IF pc[t] = "notify" THEN 1 ELSE 0)

\* the event at k is a positive classification
Positive(t, k) ==
    \/ log[t][k].op = "metadata" /\ log[t][k].res = "hit"
    \/ log[t][k].op = "analyze"  /\ log[t][k].res = "true"

Classifying(t, k) == log[t][k].op \in {"metadata", "analyze", "skip"}

\* C1: candidates are examined in the order collect_media_candidates produced
\* them (the k-th metadata check is on candidate k of the list), nothing is
\* classified after the first positive classification, and at most one delete
\* call and at most one notice send are issued for a message.
C1_OrderedShortCircuit ==
    \A t \in Handled :
        /\ \A k \in EventsOf(t, "metadata") :
              /\ log[t][k].i = Cardinality({j \in EventsOf(t, "metadata") : j <= k})
              /\ log[t][k].i \in 1..Len(candidates[t])
        /\ \A k \in Pos(t) :
              Positive(t, k) => \A j \in Pos(t) : j > k => ~Classifying(t, j)
        /\ (\E k \in Pos(t) : Positive(t, k)) => ~InCall(t)
        /\ DeleteCalls(t) <= 1
        /\ SendCalls(t) <= 1

\* a message with three candidates whose second one was the first positive;
\* the delete failed and the handler returned
C1_Witness ==
    \E t \in Handled :
        /\ pc[t] = "done"
        /\ Len(candidates[t]) = 3
        /\ \E k \in Pos(t) : Positive(t, k) /\ log[t][k].i = 2
        /\ \E k \in EventsOf(t, "delete") : log[t][k].res = "Forbidden"

\* answers of the pool whose first token is YES
YesAnswers == {ANS_Yes_clearly, ANS_yes_ws}

\* the responses that carry such an answer
YesResponses == {Outcome("ok", HTTP_OK, Body(StrV(a))) : a \in YesAnswers}

\* the latest vision call that ended; outside a call resp[t] is how its
\* request ended
LastAnalyze(t) ==
    CHOOSE k \in EventsOf(t, "analyze") : \A j \in EventsOf(t, "analyze") : j <= k

\* C2 (as claimed): analyze_image_for_hamster never raises; every failure of
\* the vision request ends as the answer false and the handler goes on.
C2_VisionNeverRaises ==
    \A t \in Handled :
        /\ pc[t] # "raised"
        /\ \A k \in EventsOf(t, "analyze") : log[t][k].res \in {"true", "false"}

\* C3 (as claimed): a vision call whose service never answers is abandoned at
\* the timeout and resolves to false, so the handler still returns.
C3_TimeoutResolvesFalse ==
    \A t \in Handled :
        (resp[t].net = "timeout" /\ ~InCall(t)) =>
            /\ pc[t] # "raised"
            /\ log[t][LastAnalyze(t)].res = "false"

\* the event at k is a positive classification of candidate i, as the claim
\* defines it
JustifiedPositive(t, k) ==
    LET e == log[t][k]
    IN  \/ /\ e.op = "metadata"
           /\ e.res = "hit"
           /\ metadata_indicates_hamster(candidates[t][e.i].metadata)
        \/ /\ e.op = "analyze"
           /\ k = LastAnalyze(t)
           /\ resp[t] \in YesResponses

\* C4: message.delete() is called only after a candidate of the same message
\* was positive by metadata or got a vision answer whose first token is YES;
\* without a positive candidate neither delete nor send is called and the
\* platform neither removes the message nor posts a notice.
C4_DeleteOnlyOnPositive ==
    \A t \in Handled :
        \/ \E k \in Pos(t) :
              /\ JustifiedPositive(t, k)
              /\ \A j \in EventsOf(t, "delete") \cup EventsOf(t, "send") : j > k
        \/ /\ DeleteCalls(t) = 0
           /\ SendCalls(t) = 0
           /\ t \notin removed
           /\ \A n \in 1..Len(channel) : channel[n] # t

\* the first candidate's vision call ended negative, the second got the
\* answer "Yes, clearly", and the message was deleted
C4_Witness ==
    \E t \in Handled :
        /\ \E k \in EventsOf(t, "analyze") :
              log[t][k].i = 1 /\ log[t][k].req /\ log[t][k].res = "false"
        /\ \E k \in EventsOf(t, "analyze") :
              log[t][k].i = 2 /\ log[t][k].res = "true"
        /\ resp[t] = Outcome("ok", HTTP_OK, Body(StrV(ANS_Yes_clearly)))
        /\ t \in removed

\* every vision call of the message failed or was skipped: nothing was done
C4_WitnessUntouched ==
    \E t \in Handled :
        /\ pc[t] = "done"
        /\ Len(candidates[t]) >= 2
        /\ EventsOf(t, "skip") # {}
        /\ EventsOf(t, "analyze") # {}
        /\ resp[t] = Outcome("ok", 429, NoneV)
        /\ DeleteCalls(t) = 0

\* C5 (as claimed): a delete that fails with not-found counts as deleted, and
\* the notice is still attempted.
C5_NotFoundCountsAsDeleted ==
    \A t \in Handled :
        \A k \in EventsOf(t, "delete") :
            log[t][k].res = "NotFound" => deleted[t] /\ SendCalls(t) = 1

\* C6: the notice is sent only after the delete succeeded; when the delete
\* fails with permission-denied or another delivery error, deleted is false,
\* no send is issued, the delete is not retried and the handler returns.
C6_NoNoticeAfterFailedDelete ==
    \A t \in Handled :
        /\ SendCalls(t) > 0 =>
              \E k \in EventsOf(t, "delete") :
                  /\ log[t][k].res = "ok"
                  /\ \A j \in EventsOf(t, "send") : j > k
        /\ \A k \in EventsOf(t, "delete") :
              log[t][k].res \in {"Forbidden", "HTTPException"} =>
                  /\ ~deleted[t]
                  /\ SendCalls(t) = 0
                  /\ DeleteCalls(t) = 1
                  /\ pc[t] = "done"

C6_Witness ==
    \E t \in Handled :
        /\ pc[t] = "done"
        /\ \E k \in EventsOf(t, "delete") : log[t][k].res = "HTTPException"

\* C7: when the delete succeeds and the notice send fails (forbidden or other
\* delivery error), the handler returns normally with deleted true and no
\* notice posted; the deletion stands and the send is not repeated.
C7_FailedNoticeKeepsDeletion ==
    \A t \in Handled :
        \A k \in EventsOf(t, "send") :
            log[t][k].res \in {"Forbidden", "HTTPException"} =>
                /\ pc[t] = "done"
                /\ deleted[t]
                /\ t \in removed
                /\ SendCalls(t) = 1
                /\ DeleteCalls(t) = 1
                /\ \A n \in 1..Len(channel) : channel[n] # t

C7_Witness ==
    \E t \in Handled :
        /\ pc[t] = "done"
        /\ t \in removed
        /\ \E k \in EventsOf(t, "send") : log[t][k].res = "Forbidden"

\* the candidate a vision call is made for: an ended call or the one in flight
VisionCandidates(t) ==
    {log[t][k].i : k \in EventsOf(t, "analyze")}
        \cup (IF InCall(t) THEN {idx[t]} ELSE {})

\* C8: the metadata check of a candidate precedes any vision call for it, and
\* the vision classifier is never invoked for a candidate whose metadata
\* check is positive.
C8_MetadataBeforeVision ==
    \A t \in Handled :
        /\ \A i \in VisionCandidates(t) :
              /\ ~metadata_indicates_hamster(candidates[t][i].metadata)
              /\ \E k \in EventsOf(t, "metadata") :
                    log[t][k].i = i /\ log[t][k].res = "miss"
        /\ \A k \in EventsOf(t, "analyze") :
              \E j \in EventsOf(t, "metadata") : j < k /\ log[t][j].i = log[t][k].i

\* a vision call was made for one candidate, and another candidate that is
\* an image by content type was decided by its metadata alone
C8_Witness ==
    \E t \in Handled :
        /\ \E k \in EventsOf(t, "analyze") : log[t][k].req
        /\ \E k \in EventsOf(t, "metadata") :
              /\ log[t][k].res = "hit"
              /\ candidates[t][log[t][k].i].content_type # None
              /\ StartsWith(candidates[t][log[t][k].i].content_type, IMAGE_CT_PREFIX)
              /\ log[t][k].i \notin VisionCandidates(t)

DeclaredVideo(c) ==
    c.content_type # None /\ StartsWith(Lower(c.content_type), VIDEO_CT_PREFIX)

HasImageExtension(c) ==
    \E e \in IMAGE_URL_EXTENSIONS : EndsWith(BeforeFirst(Lower(c.url), "?"), e)

\* a candidate with a declared content type video/* (whatever its URL) or
\* taken by EmbedChoice as a video is never passed to the vision classifier,
\* and with negative metadata it is skipped
VideoCandidatesSkipped ==
    \A t \in Handled :
        /\ \A i \in VisionCandidates(t) :
              LET c == candidates[t][i]
              IN  ~DeclaredVideo(c) /\ ~c.is_video_embed
        /\ \A k \in EventsOf(t, "metadata") :
              LET c == candidates[t][log[t][k].i]
              IN  (log[t][k].res = "miss" /\ (DeclaredVideo(c) \/ c.is_video_embed)) =>
                      /\ k + 1 \in Pos(t)
                      /\ log[t][k + 1].op = "skip"
                      /\ log[t][k + 1].i = log[t][k].i

\* a declared video whose URL ends in an image extension was skipped, and so
\* was a candidate taken from an embed's video field
VideoCandidatesSkipped_Witness ==
    \E t \in Handled :
        /\ pc[t] = "done"
        /\ \E k \in EventsOf(t, "skip") :
              LET c == candidates[t][log[t][k].i]
              IN  DeclaredVideo(c) /\ HasImageExtension(c)
        /\ \E k \in EventsOf(t, "skip") : candidates[t][log[t][k].i].is_video_embed
        /\ VisionCalls(t) = 0

\* C10: a message whose author is the bot itself or is flagged as a bot is
\* rejected before scanning: no candidate is extracted or classified and no
\* vision, delete or send call is made.
C10_BotAuthorsRejected ==
    \A t \in Handled :
        (msg[t].author_is_self \/ msg[t].author_bot) =>
            /\ pc[t] \in {"start", "done"}
            /\ candidates[t] = <<>>
            /\ log[t] = <<>>
            /\ VisionCalls(t) = 0 /\ DeleteCalls(t) = 0 /\ SendCalls(t) = 0
            /\ t \notin removed

\* a message of another bot, with a keyword and media, was dropped
C10_Witness ==
    \E t \in Handled :
        /\ pc[t] = "done"
        /\ msg[t].author_bot /\ ~msg[t].author_is_self
        /\ msg[t].attachments # <<>>
        /\ metadata_indicates_hamster(
               AttachmentCandidate(msg[t], msg[t].attachments[1]).metadata)

\* ------------------------------------------------------------------------
\* Properties of collect_media_candidates
\* ------------------------------------------------------------------------
Collected == arg.f = "collect" /\ ret.done

\* every attachment and every eligible embed that has a URL, in walk order
\* (attachments in message order, then embeds in message order), undeduplicated
RECURSIVE WalkAttachments(_, _)
WalkAttachments(m, k) ==
    IF k > Len(m.attachments) THEN <<>>
    ELSE (IF Falsy(m.attachments[k].url) THEN <<>>
          ELSE <<AttachmentCandidate(m, m.attachments[k])>>)
         \o WalkAttachments(m, k + 1)

RECURSIVE WalkEmbeds(_, _)
WalkEmbeds(m, k) ==
    IF k > Len(m.embeds) THEN <<>>
    ELSE (IF m.embeds[k].type \in EMBED_TYPES /\ ~Falsy(EmbedChoice(m.embeds[k]).url)
          THEN <<EmbedCandidate(m, m.embeds[k])>>
          ELSE <<>>)
         \o WalkEmbeds(m, k + 1)

Walk(m) == WalkAttachments(m, 1) \o WalkEmbeds(m, 1)

FirstOccurrences(w) ==
    {k \in 1..Len(w) : \A j \in 1..(k - 1) : w[j].url # w[k].url}

\* C11: the list collect_media_candidates returns never holds a URL twice,
\* and it is the walk (attachments, then embeds) restricted to the first
\* occurrence of each URL, in walk order, with that occurrence's metadata.
C11_DedupFirstWins ==
    Collected =>
        LET cs == ret.val
            w  == Walk(arg.x)
            F  == FirstOccurrences(w)
        IN  /\ \A i, j \in 1..Len(cs) : i # j => cs[i].url # cs[j].url
            /\ Len(cs) = Cardinality(F)
            /\ \A i \in 1..Len(cs) :
                  \E k \in F : /\ cs[i] = w[k]
                               /\ Cardinality({j \in F : j <= k}) = i

\* two attachments and an embed share one URL: the first attachment is kept
C11_Witness ==
    /\ Collected
    /\ Len(Walk(arg.x)) = 3
    /\ arg.x.attachments = <<A_cat, A_cat2>>
    /\ ret.val = <<AttachmentCandidate(arg.x, A_cat)>>

\* ------------------------------------------------------------------------
\* The HTTP client
\* ------------------------------------------------------------------------
\* C12 (as claimed): all vision calls share one HTTP client, created once and
\* closed only at shutdown: at most one client is ever created and none is
\* closed while messages are handled.
C12_OneSharedClient ==
    /\ http.created <= 1
    /\ http.closed = 0

\* ------------------------------------------------------------------------
\* Two messages handled by concurrently running tasks
\* ------------------------------------------------------------------------
M_cat == HumanMessage(HI, <<A_cat>>, <<>>)

M_cat_ham == HumanMessage(HI, <<A_cat, A_ham>>, <<>>)

M_doc == HumanMessage(HI, <<A_doc>>, <<>>)

ConcMessages == {M_cat, M_cat_ham, M_doc}

\* both message events have been dispatched; each task runs between its
\* awaits, and the event loop resumes them in any order
InitConc ==
    /\ Idle
    /\ \E m \in [Tasks -> ConcMessages] : BotInit(Tasks, m, TRUE)

SpecConc == InitConc /\ [][Next]_vars

\* the results of the external calls of one task, in order
Externals(lg) ==
    SelectSeq(lg, LAMBDA e : e.req \/ e.op \in {"delete", "send"})

Solo(at, d) == [pc |-> at.pc, idx |-> at.idx, log |-> at.log, deleted |-> d]

\* on_message run alone on one message, with the external results ext
RECURSIVE SoloRun(_, _, _, _, _)
SoloRun(cands, key, st, ext, k) ==
    IF k > Len(ext) THEN st
    ELSE LET e  == ext[k]
             lg == Append(st.log, Event(e.op, st.idx, e.res, e.req))
         IN  CASE st.pc = "vision" /\ e.op = "analyze" ->
                    SoloRun(cands, key,
                        Solo(IF e.res = "raise" THEN At("raised", st.idx, lg)
                             ELSE AfterClassify(e.res = "true", cands, st.idx, lg, key),
                             st.deleted),
                        ext, k + 1)
               [] st.pc = "delete" /\ e.op = "delete" ->
                    LET d   == delete_hamster_message(e.res)
                        nxt == AfterDelete(d, st.idx, lg)
                    IN  SoloRun(cands, key,
                            Solo(IF nxt.pc = "done"
                                 THEN AfterAction(cands, st.idx, lg, key) ELSE nxt, d),
                            ext, k + 1)
               [] st.pc = "notify" /\ e.op = "send" ->
                    SoloRun(cands, key,
                        Solo(IF notify_hamster_deleted(e.res).raised
                             THEN At("raised", st.idx, lg)
                             ELSE AfterAction(cands, st.idx, lg, key),
                             st.deleted),
                        ext, k + 1)
               [] OTHER -> Solo(At("diverged", st.idx, lg), st.deleted)

SoloOnMessage(message, key, ext) ==
    IF Rejected(message) THEN Solo(At("done", 0, <<>>), FALSE)
    ELSE LET cands == collect_media_candidates(message)
         IN  SoloRun(cands, key, Solo(RunLoop(cands, 1, <<>>, key), FALSE), ext, 1)

Notices(t) == {k \in 1..Len(channel) : channel[k] = t}

\* the await on_message is suspended at; inside the vision call the task may
\* be at any of the call's own awaits
SameAwait(t, solo_pc) ==
    IF solo_pc = "vision" THEN InCall(t) ELSE solo_pc = pc[t]

\* C13: in every interleaving of the tasks, a message is removed and a notice
\* posted for it only by its own task's successful delete and send, and where
\* each task stands (its position, its log, its deleted flag) is what
\* on_message run alone on that message gives with the task's own external
\* results.
C13_TasksIsolated ==
    \A t \in Handled :
        pc[t] # "start" =>
            LET s == SoloOnMessage(msg[t], api_key, Externals(log[t]))
            IN  /\ SameAwait(t, s.pc)
                /\ s.idx = idx[t]
                /\ s.log = log[t]
                /\ s.deleted = deleted[t]
                /\ (t \in removed) <=>
                       (\E k \in EventsOf(t, "delete") : log[t][k].res = "ok")
                /\ Cardinality(Notices(t)) =
                       Cardinality({k \in EventsOf(t, "send") : log[t][k].res = "ok"})

\* both tasks are suspended at the same time, task 2 having overtaken task 1:
\* its second candidate is deleted while task 1 still reads the body of its
\* first answer
C13_Witness ==
    /\ msg[1] = M_cat_ham
    /\ msg[2] = M_cat_ham
    /\ pc[1] = "body"
    /\ idx[1] = 1
    /\ pc[2] = "notify"
    /\ idx[2] = 2
    /\ removed = {2}

\* ------------------------------------------------------------------------
\* The parse of the vision answer
\* ------------------------------------------------------------------------
MaxAnswerLen == 4

\* letters of both cases, separators, a letter outside A-Z (e acute), and the
\* two characters whose upper case is S (long s, 017F) and SS (sharp s)
AnswerAlphabet == {"Y", "y", "e", "S", "T", " ", ",", "é", "ß", "U+017F"}

Answers == SeqsUpTo(AnswerAlphabet, MaxAnswerLen) \cup AnswerPool

\* the request ended with status 200 and a well-formed body
Success(answer) == Outcome("ok", HTTP_OK, Body(StrV(answer)))

InitParse ==
    /\ \E key \in BOOLEAN : BotInit({}, [t \in Tasks |-> NoMessage], key)
    /\ grok = NoGrok
    /\ \E a \in Answers : arg = [f |-> "analyze", x |-> a]
    /\ ret = NoRet

\* the caller of the vision classifier in this specification
Caller == 1

\* lines 171-201: without the API key the call returns false at once (lines
\* 173-175); with it the call creates its session and sends the request
CallAnalyze ==
    /\ arg.f = "analyze"
    /\ ~ret.done
    /\ pc[Caller] = "absent"
    /\ IF ~api_key
       THEN /\ ret' = [done |-> TRUE, val |-> Returns(FALSE)]
            /\ UNCHANGED <<pc, http>>
       ELSE /\ pc' = [pc EXCEPT ![Caller] = "vision"]
            /\ http' = [http EXCEPT !.created = @ + 1]
            /\ UNCHANGED ret
    /\ UNCHANGED <<api_key, msg, candidates, idx, deleted, resp, log, removed,
                   channel, arg, grok>>

\* line 201: the response arrives with status 200
AnalyzeResponds ==
    /\ arg.f = "analyze"
    /\ pc[Caller] = "vision"
    /\ pc' = [pc EXCEPT ![Caller] = "body"]
    /\ resp' = [resp EXCEPT ![Caller] = Outcome("headers", HTTP_OK, NoneV)]
    /\ UNCHANGED <<api_key, msg, candidates, idx, deleted, log, removed, channel,
                   http, arg, ret, grok>>

\* line 209: resp.json() gives the well-formed body carrying the answer
AnalyzeBodyReturns ==
    /\ arg.f = "analyze"
    /\ pc[Caller] = "body"
    /\ pc' = [pc EXCEPT ![Caller] = "closing"]
    /\ resp' = [resp EXCEPT ![Caller] = Success(arg.x)]
    /\ UNCHANGED <<api_key, msg, candidates, idx, deleted, log, removed, channel,
                   http, arg, ret, grok>>

\* lines 211-219 and 199-201: the answer is parsed, the with blocks are left
\* and the call returns
AnalyzeReturns ==
    /\ arg.f = "analyze"
    /\ pc[Caller] = "closing"
    /\ pc' = [pc EXCEPT ![Caller] = "absent"]
    /\ http' = SessionLeft(http)
    /\ ret' = [done |-> TRUE, val |-> analyze_image_for_hamster(resp[Caller])]
    /\ UNCHANGED <<api_key, msg, candidates, idx, deleted, resp, log, removed,
                   channel, arg, grok>>

NextParse ==
    \/ CallAnalyze
    \/ AnalyzeResponds
    \/ AnalyzeBodyReturns
    \/ AnalyzeReturns

SpecParse == InitParse /\ [][NextParse]_vars

\* the call ended after a successful response carrying the answer
Analyzed == arg.f = "analyze" /\ ret.done /\ resp[Caller] = Success(arg.x)

\* the call ended without the API key: false, no session, no request
NoKeyNoCall ==
    (arg.f = "analyze" /\ ret.done /\ ~api_key) =>
        /\ ret.val = Returns(FALSE)
        /\ http = [created |-> 0, closed |-> 0]
        /\ resp[Caller] = NoOutcome

\* the letters of the alphabet outside ASCII
OtherLetters ==
    {"ª", "µ", "º", "À", "Á", "Â", "Ã", "Ä", "Å", "Æ",
    "Ç", "È", "É", "Ê", "Ë", "Ì", "Í", "Î", "Ï", "Ð",
    "Ñ", "Ò", "Ó", "Ô", "Õ", "Ö", "Ø", "Ù", "Ú", "Û",
    "Ü", "Ý", "Þ", "ß", "à", "á", "â", "ã", "ä", "å",
    "æ", "ç", "è", "é", "ê", "ë", "ì", "í", "î", "ï",
    "ð", "ñ", "ò", "ó", "ô", "õ", "ö", "ø", "ù", "ú",
    "û", "ü", "ý", "þ", "ÿ", "U+0130", "U+0131", "U+0149", "U+0178", "U+017F",
    "U+01F0", "U+02BC", "U+02BE", "U+039C", "U+03BC", "U+1E96", "U+1E97", "U+1E98", "U+1E99", "U+1E9A",
    "U+1E9E", "U+212A", "U+212B", "U+FB00", "U+FB01", "U+FB02", "U+FB03", "U+FB04", "U+FB05", "U+FB06"}

\* a letter of any alphabet
IsLetter(c) == IsLower(c) \/ IsUpper(c) \/ c \in OtherLetters

\* the answer as the claim reads it: stripped and upper-cased
Normalised(s) == Upper(Strip(s))

\* the first maximal run of characters satisfying tokenchar is Y, E, S
FirstTokenIsYes(u, tokenchar(_)) ==
    \E i \in 1..(Len(u) - 2) :
        /\ \A j \in 1..(i - 1) : ~tokenchar(u[j])
        /\ SubSeq(u, i, i + 2) = YES
        /\ (i + 3 <= Len(u) => ~tokenchar(u[i + 3]))

\* C14 (as claimed): on a successful response the call returns, and returns
\* true exactly when the first run of letters of the stripped, upper-cased
\* answer is YES, every character that is not a letter separating tokens;
\* "Yes, clearly" gives true; "NO - just a mouse", YESTERDAY, YES in a later
\* token and the empty answer give false.
C14_FirstTokenYes ==
    Analyzed =>
        /\ ~ret.val.raised
        /\ ret.val.value <=> FirstTokenIsYes(Normalised(arg.x), IsLetter)
        /\ arg.x = ANS_Yes_clearly => ret.val.value
        /\ arg.x \in {ANS_NO_mouse, ANS_YESTERDAY, ANS_no_yes, ANS_empty}
              => ~ret.val.value

\* C14 (amended): on a successful response the call returns, and returns true
\* exactly when the first run of the letters A-Z of the stripped, upper-cased
\* answer is YES, every other character separating tokens; "Yes, clearly"
\* gives true; "NO - just a mouse", YESTERDAY, YES in a later token and the
\* empty answer give false.
C14_FirstAsciiTokenYes ==
    Analyzed =>
        /\ ~ret.val.raised
        /\ ret.val.value <=> FirstTokenIsYes(Normalised(arg.x), IsUpper)
        /\ arg.x = ANS_Yes_clearly => ret.val.value
        /\ arg.x \in {ANS_NO_mouse, ANS_YESTERDAY, ANS_no_yes, ANS_empty}
              => ~ret.val.value

\* a comma, then yes spelt with a long s: upper-casing makes the token YES
C14_Witness ==
    /\ Analyzed
    /\ arg.x = <<",", "y", "e", "U+017F">>
    /\ ret.val = Returns(TRUE)

\* ------------------------------------------------------------------------
\* The metadata classifier
\* ------------------------------------------------------------------------
MaxParts == 2

P_HAMSTER_png == StrV(<<"H","A","M","S","T","E","R",".","p","n","g">>)

P_hamster_png == StrV(<<"h","a","m","s","t","e","r",".","p","n","g">>)

P_look_hampter == StrV(<<"l","o","o","k"," ","a","t"," ","t","h","i","s"," ","h","a","m","p","t","e","r">>)

P_hampterific == StrV(<<"h","a","m","p","t","e","r","i","f","i","c">>)

P_Hampter_bang == StrV(<<"H","a","m","p","t","e","r","!">>)

P_hampter2 == StrV(<<"h","a","m","p","t","e","r","2">>)

P_ham == StrV(<<"h","a","m">>)

P_ster == StrV(<<"s","t","e","r">>)

\* the keyword is a key of the dict, not a value
P_dict_key == DictV(<<"hammy">>, <<StrV(<<"x",".","p","n","g">>)>>)

P_nested ==
    DictV(<<"name">>, <<ListV(<<NoneV, DictV(<<"text">>, <<StrV(<<"m","y"," ","H","a","m","T","a","r","o">>)>>)>>)>>)

\* underscores are not alphanumeric
P_list == ListV(<<StrV(<<"a","_","h","a","m","p","t","e","r","_","b">>), NoneV>>)

P_number == OtherV(<<"4","2">>)

\* a letter outside a-z after the token
P_hampter_acute == StrV(<<"h","a","m","p","t","e","r","é">>)

\* sharp s, whose upper case is SS
P_hampter_sharp == StrV(<<"h","a","m","p","t","e","r","ß">>)

\* the Kelvin sign, whose lower case is k
P_hampter_kelvin == StrV(<<"h","a","m","p","t","e","r","U+212A">>)

PartPool ==
    {NoneV, P_HAMSTER_png, P_hamster_png, P_look_hampter, P_hampterific,
     P_Hampter_bang, P_hampter2, P_ham, P_ster, P_dict_key, P_nested, P_list,
     P_number, P_hampter_acute, P_hampter_sharp, P_hampter_kelvin}

InitMeta ==
    /\ BotIdle
    /\ grok = NoGrok
    /\ \E ps \in SeqsUpTo(PartPool, MaxParts) : arg = [f |-> "metadata", x |-> ps]
    /\ ret = NoRet

\* lines 270-272: the call metadata_indicates_hamster(*parts)
CallMetadata ==
    /\ arg.f = "metadata"
    /\ ~ret.done
    /\ ret' = [done |-> TRUE, val |-> metadata_indicates_hamster(arg.x)]
    /\ UNCHANGED <<botvars, arg, grok>>

NextMeta == CallMetadata

SpecMeta == InitMeta /\ [][NextMeta]_vars

MetaCalled == arg.f = "metadata" /\ ret.done

\* the numeric characters of the alphabet outside ASCII
OtherNumerics ==
    {"²", "³", "¹", "¼", "½", "¾"}

\* a letter or a digit of any alphabet
IsAlnum(c) == IsLetter(c) \/ c \in Digits \/ c \in OtherNumerics

\* one of a-z and 0-9
IsAsciiAlnum(c) == IsLower(c) \/ c \in Digits

\* the strings of a value, left to right, absent values giving none
RECURSIVE Leaves(_)
Leaves(v) ==
    IF v.tag = "none" THEN <<>>
    ELSE IF v.tag \in {"dict", "list"}
         THEN IF v.items = <<>> THEN <<>>
              ELSE Leaves(Head(v.items)) \o Leaves([v EXCEPT !.items = Tail(@)])
         ELSE <<v.s>>

\* word occurs in text between characters that do not satisfy tokenchar
OccursAsToken(text, word, tokenchar(_)) ==
    \E i \in 1..(Len(text) - Len(word) + 1) :
        /\ SubSeq(text, i, i + Len(word) - 1) = word
        /\ (i > 1 => ~tokenchar(text[i - 1]))
        /\ (i + Len(word) <= Len(text) => ~tokenchar(text[i + Len(word)]))

\* the same value with every string in upper case
RECURSIVE UpperValue(_)
UpperValue(v) ==
    [v EXCEPT !.s = Upper(@),
              !.items = [i \in 1..Len(@) |-> UpperValue(@[i])]]

\* s with the letters a-z in upper case and every other character unchanged
AsciiUpper(s) == [i \in 1..Len(s) |-> IF IsLower(s[i]) THEN ToUpper[s[i]] ELSE s[i]]

\* the same value with the letters a-z of every string in upper case
RECURSIVE AsciiUpperValue(_)
AsciiUpperValue(v) ==
    [v EXCEPT !.s = AsciiUpper(@),
              !.items = [i \in 1..Len(@) |-> AsciiUpperValue(@[i])]]

Present(v) == v # NoneV

\* the text the claim speaks of: the parts' strings joined by spaces, in
\* lower case
FlattenedText(parts) == Lower(JoinSpace(Leaves(ListV(parts))))

\* C15 (as claimed): metadata_indicates_hamster returns true exactly when the
\* lower-cased text of the parts' strings contains a keyword as a substring
\* or contains hampter as a whole token between non-alphanumeric characters;
\* absent parts and the case of the text do not change the result;
\* HAMSTER.png, hamster.png and "look at this hampter" are positive and
\* hampterific is negative.
C15_MetadataClassifier ==
    MetaCalled =>
        LET text == FlattenedText(arg.x)
        IN  /\ ret.val \in BOOLEAN
            /\ ret.val <=>
                  \/ \E keyword \in HAMSTER_KEYWORDS : Contains(text, keyword)
                  \/ OccursAsToken(text, HAMPTER, IsAlnum)
            /\ ret.val = metadata_indicates_hamster(SelectSeq(arg.x, Present))
            /\ ret.val =
                  metadata_indicates_hamster(
                      [i \in 1..Len(arg.x) |-> UpperValue(arg.x[i])])
            /\ arg.x \in {<<P_HAMSTER_png>>, <<P_hamster_png>>, <<P_look_hampter>>}
                  => ret.val
            /\ arg.x = <<P_hampterific>> => ~ret.val

\* C15 (amended): metadata_indicates_hamster returns true exactly when the
\* lower-cased text of the parts' strings contains a keyword as a substring
\* or contains hampter as a whole token between characters other than a-z
\* and 0-9; absent parts and the case of the letters A-Z do not change the
\* result; HAMSTER.png, hamster.png and "look at this hampter" are positive
\* and hampterific is negative.
C15_AsciiTokenClassifier ==
    MetaCalled =>
        LET text == FlattenedText(arg.x)
        IN  /\ ret.val \in BOOLEAN
            /\ ret.val <=>
                  \/ \E keyword \in HAMSTER_KEYWORDS : Contains(text, keyword)
                  \/ OccursAsToken(text, HAMPTER, IsAsciiAlnum)
            /\ ret.val = metadata_indicates_hamster(SelectSeq(arg.x, Present))
            /\ ret.val =
                  metadata_indicates_hamster(
                      [i \in 1..Len(arg.x) |-> AsciiUpperValue(arg.x[i])])
            /\ arg.x \in {<<P_HAMSTER_png>>, <<P_hamster_png>>, <<P_look_hampter>>}
                  => ret.val
            /\ arg.x = <<P_hampterific>> => ~ret.val

\* an absent part, then the upper-case file name
C15_Witness ==
    /\ MetaCalled
    /\ arg.x = <<NoneV, P_HAMSTER_png>>
    /\ ret.val = TRUE

\* ------------------------------------------------------------------------
\* One message carrying an embed
\* ------------------------------------------------------------------------
EmbedMessages ==
    { HumanMessage(HI, atts, <<e>>) :
        atts \in {<<>>, <<A_cat>>}, e \in CollectEmbedPool }

InitEmbed ==
    /\ Idle
    /\ \E m \in EmbedMessages : BotInit({1}, [t \in Tasks |-> m], TRUE)

SpecEmbed == InitEmbed /\ [][Next]_vars

IsEmbedCandidate(c) == Len(c.metadata) = 9

\* the candidate's URL was taken from the image or thumbnail field of an embed
FromImageField(message, c) ==
    /\ IsEmbedCandidate(c)
    /\ \E k \in 1..Len(message.embeds) :
          LET embed == message.embeds[k]
          IN  /\ embed.type \in EMBED_TYPES
              /\ \/ embed.image.has /\ embed.image.url = c.url
                 \/ ~embed.image.has /\ embed.thumbnail.has
                                     /\ embed.thumbnail.url = c.url

DeclaredImage(c) ==
    /\ ~IsEmbedCandidate(c)
    /\ StartsWith(Lower(OrEmpty(c.content_type)), IMAGE_CT_PREFIX)

\* candidate i of task t was passed to analyze_image_for_hamster
Submitted(t, i) ==
    \/ InCall(t) /\ idx[t] = i
    \/ \E k \in EventsOf(t, "analyze") : log[t][k].i = i

\* C16 (as claimed): a candidate that is a declared image attachment, or an
\* embed URL taken from the image or thumbnail field, and that is reached
\* with negative metadata is passed to the vision classifier, and an answer
\* of true is followed by the delete call.
C16_ImageCandidatesSubmitted ==
    \A t \in Handled :
        /\ \A k \in EventsOf(t, "metadata") :
              LET i == log[t][k].i
                  c == candidates[t][i]
              IN  /\ log[t][k].res = "miss"
                  /\ DeclaredImage(c) \/ FromImageField(msg[t], c)
                  => Submitted(t, i)
        /\ \A k \in EventsOf(t, "analyze") :
              log[t][k].res = "true" =>
                  IF k = Len(log[t]) THEN pc[t] = "delete"
                  ELSE log[t][k + 1].op = "delete"

IsGifvCandidate(c) == IsEmbedCandidate(c) /\ c.metadata[5] = StrV(T_GIFV)

\* C19 (as claimed): a candidate taken from a gifv embed is a video whichever
\* field its URL came from, and is never passed to the vision classifier.
C19_GifvIsVideo ==
    \A t \in Handled :
        \A i \in 1..Len(candidates[t]) :
            IsGifvCandidate(candidates[t][i]) =>
                /\ candidates[t][i].is_video_embed
                /\ ~Submitted(t, i)

\* ------------------------------------------------------------------------
\* Attachments of unknown type
\* ------------------------------------------------------------------------
HasExtension(url, exts) ==
    \E e \in exts : EndsWith(BeforeFirst(Lower(OrEmpty(url)), "?"), e)

\* neither the declared content type nor the URL path says image or video
UnknownType(attachment) ==
    LET ct == Lower(OrEmpty(attachment.content_type))
    IN  /\ ~StartsWith(ct, IMAGE_CT_PREFIX)
        /\ ~StartsWith(ct, VIDEO_CT_PREFIX)
        /\ ~HasExtension(attachment.url, IMAGE_URL_EXTENSIONS \cup VIDEO_URL_EXTENSIONS)

\* C17 (as claimed): an attachment of unknown type gives no candidate, and a
\* message whose only media are such attachments is never deleted.
C17_UnknownAttachmentDropped ==
    \A t \in Handled :
        LET atts    == msg[t].attachments
            unknown == {k \in 1..Len(atts) : UnknownType(atts[k])}
        IN  /\ \A k \in unknown :
                  \A i \in 1..Len(candidates[t]) :
                      candidates[t][i] # AttachmentCandidate(msg[t], atts[k])
            /\ (msg[t].embeds = <<>> /\ unknown = 1..Len(atts)) => t \notin removed

\* ------------------------------------------------------------------------
\* The media type of a candidate
\* ------------------------------------------------------------------------
\* the candidate's URL was taken from the video field of an embed
FromVideoField(message, c) ==
    /\ IsEmbedCandidate(c)
    /\ \E k \in 1..Len(message.embeds) :
          LET embed == message.embeds[k]
          IN  /\ embed.type \in EMBED_TYPES
              /\ ~embed.image.has /\ ~embed.thumbnail.has
              /\ embed.video.has /\ embed.video.url = c.url

\* the type the URL path says, the query string stripped
TypeByExtension(url) ==
    IF HasExtension(url, IMAGE_URL_EXTENSIONS) THEN "Image"
    ELSE IF HasExtension(url, VIDEO_URL_EXTENSIONS) THEN "Video"
    ELSE "Unknown"

\* the media type of a candidate of the message: for an attachment the
\* declared content type, else the URL path; for an embed Video when the URL
\* came from the video field or the embed is a gifv, Image when it came from
\* the image or thumbnail field, else the URL path
MediaType(message, c) ==
    IF IsEmbedCandidate(c)
    THEN IF FromVideoField(message, c) \/ IsGifvCandidate(c) THEN "Video"
         ELSE IF FromImageField(message, c) THEN "Image"
         ELSE TypeByExtension(c.url)
    ELSE LET ct == Lower(OrEmpty(c.content_type))
         IN  IF StartsWith(ct, VIDEO_CT_PREFIX) THEN "Video"
             ELSE IF StartsWith(ct, IMAGE_CT_PREFIX) THEN "Image"
             ELSE TypeByExtension(c.url)

\* the candidates a vision request was issued for: an ended call that made
\* the request, or the call in flight
RequestedCandidates(t) ==
    {log[t][k].i : k \in {j \in EventsOf(t, "analyze") : log[t][j].req}}
        \cup (IF InCall(t) THEN {idx[t]} ELSE {})

\* C9 (as claimed): no vision request is issued for a candidate whose media
\* type is not Image, and such a candidate reached with negative metadata is
\* negative without a request (skipped, or refused for want of an API key):
\* among them an attachment with a declared content type video/* (whatever
\* its URL) and a candidate taken from an embed's video field.
C9_NoVisionForNonImage ==
    \A t \in Handled :
        /\ \A i \in RequestedCandidates(t) :
              MediaType(msg[t], candidates[t][i]) = "Image"
        /\ \A k \in EventsOf(t, "metadata") :
              LET c == candidates[t][log[t][k].i]
              IN  (log[t][k].res = "miss" /\ MediaType(msg[t], c) # "Image") =>
                      /\ k + 1 \in Pos(t)
                      /\ log[t][k + 1].i = log[t][k].i
                      /\ \/ log[t][k + 1].op = "skip"
                         \/ /\ log[t][k + 1].op = "analyze"
                            /\ ~log[t][k + 1].req
                            /\ log[t][k + 1].res = "false"

\* the same with gifv embeds left aside: a vision request is issued for no
\* other candidate that is not an image
NoVisionForNonImageButGifv ==
    \A t \in Handled :
        \A i \in RequestedCandidates(t) :
            \/ IsGifvCandidate(candidates[t][i])
            \/ MediaType(msg[t], candidates[t][i]) = "Image"

\* ------------------------------------------------------------------------
\* The URL chosen for an embed
\* ------------------------------------------------------------------------
\* the four places an embed may carry a URL, in priority order
Fields(embed) ==
    << embed.image, embed.thumbnail, embed.video,
       [has |-> ~Falsy(embed.url), url |-> embed.url] >>

\* the URL of the first field satisfying ok, None if there is none
FirstField(embed, ok(_)) ==
    LET fs == Fields(embed)
        S  == {i \in 1..Len(fs) : ok(fs[i])}
    IN  IF S = {} THEN None
        ELSE fs[CHOOSE i \in S : \A j \in S : i <= j].url

CarriesUrl(f) == ~Falsy(f.url)

IsPresent(f) == f.has

Eligible(embed) == embed.type \in EMBED_TYPES

\* the positions in cs of the candidates made from this embed
CandidatesOf(cs, m, embed) ==
    {i \in 1..Len(cs) : /\ IsEmbedCandidate(cs[i])
                        /\ cs[i].metadata = EmbedCandidate(m, embed).metadata}

\* C18 (as claimed): an eligible embed gives exactly one candidate, with the
\* URL of the first of image, thumbnail, video, own URL that carries one; it
\* gives none only when none of the four carries a URL; embeds of other
\* kinds give none.
C18_FirstFieldWithUrl ==
    Collected =>
        \A k \in 1..Len(arg.x.embeds) :
            LET embed == arg.x.embeds[k]
                own   == CandidatesOf(ret.val, arg.x, embed)
                first == FirstField(embed, CarriesUrl)
            IN  IF Eligible(embed) /\ first # None
                THEN \E i \in own : own = {i} /\ ret.val[i].url = first
                ELSE own = {}

\* embed k of the message gives a candidate: it is eligible, its first
\* present field has a URL, and no attachment or earlier embed took that URL
Yields(m, k) ==
    LET picked == FirstField(m.embeds[k], IsPresent)
    IN  /\ Eligible(m.embeds[k])
        /\ ~Falsy(picked)
        /\ \A j \in 1..Len(m.attachments) : m.attachments[j].url # picked
        /\ \A j \in 1..(k - 1) :
              Eligible(m.embeds[j]) => FirstField(m.embeds[j], IsPresent) # picked

\* C18 (amended): the candidates made from embeds are, in message order,
\* those of the eligible embeds whose first present field (image, thumbnail,
\* video, else own URL) has a URL not already taken by an attachment or an
\* earlier embed, each with that URL; every other embed gives none.
C18_FirstPresentField ==
    Collected =>
        LET m  == arg.x
            ec == SelectSeq(ret.val, IsEmbedCandidate)
            Y  == {k \in 1..Len(m.embeds) : Yields(m, k)}
        IN  /\ Len(ec) = Cardinality(Y)
            /\ \A k \in Y :
                  LET c == ec[Cardinality({y \in Y : y <= k})]
                  IN  /\ c.url = FirstField(m.embeds[k], IsPresent)
                      /\ c.metadata = EmbedCandidate(m, m.embeds[k]).metadata

\* two embeds of one message: the first has only its own URL, which is
\* picked; the second has a thumbnail with that same URL, which is picked
\* before its other fields and dropped because the first embed took it
C18_Witness ==
    /\ Collected
    /\ arg.x.attachments = <<>>
    /\ arg.x.embeds = <<E_dup, E_dupthumb>>
    /\ Yields(arg.x, 1) /\ ~Yields(arg.x, 2)
    /\ Len(ret.val) = 1
    /\ ret.val[1].url = E_dup.url
    /\ ret.val[1].metadata = EmbedCandidate(arg.x, E_dup).metadata

\* two embeds of one message that both give a candidate, in message order;
\* the image field of the second wins over its thumbnail and video
TwoEmbedsInOrder ==
    /\ Collected
    /\ arg.x.attachments = <<A_cat>>
    /\ arg.x.embeds = <<E_thumb, E_all>>
    /\ Len(ret.val) = 3
    /\ ret.val[2].url = E_thumb.thumbnail.url
    /\ ret.val[3].url = E_all.image.url

\* ------------------------------------------------------------------------
\* The summarizer bot (src/grok_bot.py)
\* ------------------------------------------------------------------------
\* the number of messages the channel holds when the history is read
MaxHistory == 2

GROK_ROLE_ID == "1467201281746796729"

OTHER_ROLE_ID == "7"

\* the role mention inside message.content, as one character of the text
MENTION == "<@&1467201281746796729>"

\* content.replace(f"<@&{self.grok_role_id}>", "")
RemoveMention(content) == SelectSeq(content, LAMBDA c : c # MENTION)

\* author_is_self: message.author == self.user. The bot's own messages are
\* its placeholders, which mention no role.
GrokMessages ==
         { [author_is_self |-> FALSE, role_mentions |-> rs, content |-> c] :
             rs \in {{}, {OTHER_ROLE_ID}},
             c  \in {HI} }
    \cup { [author_is_self |-> FALSE, role_mentions |-> rs, content |-> c] :
             rs \in {{GROK_ROLE_ID}, {OTHER_ROLE_ID, GROK_ROLE_ID}},
             c  \in {<<MENTION>>, <<MENTION, " ">>, <<MENTION, "\r">>,
                     <<MENTION, " ", "h", "i">>} }
    \cup { [author_is_self |-> TRUE, role_mentions |-> {}, content |-> HI] }

\* msg.content of a message of the channel
HistoryContents == {<<>>, <<" ">>, <<"\r">>, HI}

\* the list read at line 100, newest first
Histories == SeqsUpTo(HistoryContents, MaxHistory)

HistoryResults ==
    {[exc |-> "Forbidden", messages |-> <<>>],
     [exc |-> "HTTPException", messages |-> <<>>]}
    \cup {[exc |-> "", messages |-> h] : h \in Histories}

\* an answer between carriage returns
ANS_yes_cr == <<"\r", "y", "e", "s", "\r">>

\* how the request to the text model ended
GrokOutcomes ==
         {Outcome("post_error", 0, NoneV), Outcome("timeout", 0, NoneV)}
    \cup {Outcome("ok", 429, NoneV), Outcome("read_error", 500, NoneV)}
    \cup {Outcome("bad_json", 200, NoneV)}
    \cup {Outcome("ok", 200, Body(StrV(a))) : a \in {ANS_empty, ANS_yes_ws, ANS_yes_cr}}
    \cup {Outcome("ok", 200, d) : d \in MalformedBodies}

Reply(kind, text) == [raised |-> FALSE, kind |-> kind, text |-> text]

\* fetch_grok_response without the handler of lines 75-77
fetch_grok_response_NoCatchAll(outcome) ==
    CASE outcome.net = "timeout"    -> Reply("timeout", <<>>)
      [] outcome.net = "post_error" -> [raised |-> TRUE, kind |-> "ClientError", text |-> <<>>]
      [] outcome.net = "read_error" -> [raised |-> TRUE, kind |-> "ClientError", text |-> <<>>]
      [] outcome.status # HTTP_OK   -> Reply("api_error", <<>>)
      [] outcome.net = "bad_json"   -> [raised |-> TRUE, kind |-> "ContentTypeError", text |-> <<>>]
      [] OTHER ->
            LET d == DigContent(outcome.data)
            IN  IF d.exc # "" THEN [raised |-> TRUE, kind |-> d.exc, text |-> <<>>]
                ELSE IF d.v.tag # "str"
                     THEN [raised |-> TRUE, kind |-> "AttributeError", text |-> <<>>]
                ELSE Reply("content", Strip(d.v.s))

\* lines 63-77: the string the call returns once the request ended
fetch_grok_response(outcome) ==
    CASE outcome.net = "timeout"    -> Reply("timeout", <<>>)
      [] outcome.net = "post_error" -> Reply("unexpected", <<>>)
      [] outcome.net = "read_error" -> Reply("unexpected", <<>>)
      [] outcome.status # HTTP_OK   -> Reply("api_error", <<>>)
      [] outcome.net = "bad_json"   -> Reply("unexpected", <<>>)
      [] OTHER ->
            LET d == DigContent(outcome.data)
            IN  IF d.exc # "" THEN Reply("unexpected", <<>>)
                ELSE IF d.v.tag # "str" THEN Reply("unexpected", <<>>)
                ELSE Reply("content", Strip(d.v.s))

DISPLAY_NAME == <<"u">>

\* line 110: f"[{msg.author.display_name}]: {msg.content}\n"
ChatLine(content) == <<"[">> \o DISPLAY_NAME \o <<"]", ":", " ">> \o content \o <<"\n">>

Reverse(q) == [i \in 1..Len(q) |-> q[Len(q) + 1 - i]]

\* lines 101-110: reverse, drop the last, keep the non-blank contents
RECURSIVE ChatLog(_)
ChatLog(messages) ==
    IF messages = <<>> THEN <<>>
    ELSE (IF Strip(Head(messages)) # <<>> THEN ChatLine(Head(messages)) ELSE <<>>)
         \o ChatLog(Tail(messages))

AllButLast(q) == SubSeq(q, 1, Len(q) - 1)

GrokEvent(op, res) == [op |-> op, res |-> res]

GrokState(p, message, in_try, edit, chat_log, trace) ==
    [pc |-> p, message |-> message, in_try |-> in_try, edit |-> edit,
     chat_log |-> chat_log, trace |-> trace, resp |-> NoOutcome]

InitGrok ==
    /\ BotIdle
    /\ arg = NoArg
    /\ ret = NoRet
    /\ \E m \in GrokMessages : grok = GrokState("start", m, FALSE, "", <<>>, <<>>)

clean_prompt(message) == Strip(RemoveMention(message.content))

\* lines 80-96: own messages and messages without the role are ignored;
\* otherwise the placeholder is sent
GrokOnMessage ==
    /\ grok.pc = "start"
    /\ LET grok_role_mentioned == GROK_ROLE_ID \in grok.message.role_mentions
       IN  IF grok.message.author_is_self \/ ~grok_role_mentioned
           THEN grok' = [grok EXCEPT !.pc = "done"]
           ELSE grok' = [grok EXCEPT !.pc = "send"]
    /\ UNCHANGED <<botvars, arg, ret>>

\* the handler of lines 124-128 takes over after an exception in the try block
Handler(exc) == IF exc = "Forbidden" THEN "forbidden" ELSE "error"

\* lines 93-96: the awaited channel.send ends (outside the try block)
GrokSendReturns ==
    /\ grok.pc = "send"
    /\ \E result \in SendResults :
          grok' = [grok EXCEPT
                     !.pc = IF result = "ok" THEN "history" ELSE "raised",
                     !.in_try = result = "ok",
                     !.trace = Append(@, GrokEvent("send", result))]
    /\ UNCHANGED <<botvars, arg, ret>>

\* lines 100-117: the history is read and the chat log built
GrokHistoryReturns ==
    /\ grok.pc = "history"
    /\ \E h \in HistoryResults :
          LET tr == Append(grok.trace, GrokEvent("history", h.exc))
          IN  IF h.exc # ""
              THEN grok' = [grok EXCEPT !.pc = "edit", !.in_try = FALSE,
                                        !.edit = Handler(h.exc), !.trace = tr]
              ELSE LET chat_log == ChatLog(AllButLast(Reverse(h.messages)))
                   IN  IF Strip(chat_log) = <<>>
                       THEN grok' = [grok EXCEPT !.pc = "edit", !.edit = "no_history",
                                                 !.chat_log = chat_log, !.trace = tr]
                       ELSE grok' = [grok EXCEPT !.pc = "fetch",
                                                 !.chat_log = chat_log,
                                                 !.trace = Append(tr, GrokEvent("request", ""))]
    /\ UNCHANGED <<botvars, arg, ret>>

\* lines 117-123: fetch_grok_response ends with the given outcome of its
\* request and on_message runs on to the edit
AfterFetch(g, outcome) ==
    LET response == fetch_grok_response(outcome)
        tr == Append(g.trace,
                 GrokEvent("fetch", IF response.raised THEN "raise" ELSE response.kind))
    IN  IF response.raised
        THEN [g EXCEPT !.pc = "edit", !.in_try = FALSE, !.resp = outcome,
                       !.edit = Handler(response.kind), !.trace = tr]
        ELSE [g EXCEPT !.pc = "edit", !.resp = outcome,
                       !.edit = IF clean_prompt(g.message) = <<>>
                                THEN "summary" ELSE "answer",
                       !.trace = tr]

\* what the await of line 65 may give: a failure, or a response whose status
\* is known and whose body is still to be read
GrokPostResults ==
         {o \in GrokOutcomes : o.net \in PostFailures}
    \cup {Outcome("headers", o.status, NoneV) :
             o \in {v \in GrokOutcomes : v.net \notin PostFailures}}

\* line 65: the awaited session.post ends; a failure is caught at lines 73-77
\* and the call returns at once
GrokResponds ==
    /\ grok.pc = "fetch"
    /\ \E p \in GrokPostResults :
          IF p.net \in PostFailures
          THEN grok' = AfterFetch(grok, p)
          ELSE grok' = [grok EXCEPT !.pc = "body", !.resp = p]
    /\ UNCHANGED <<botvars, arg, ret>>

\* lines 67 and 71: the awaited resp.text() or resp.json() ends, or the
\* request's timeout runs out during it, and the call returns
GrokFetchReturns ==
    /\ grok.pc = "body"
    /\ \E outcome \in GrokOutcomes :
          /\ \/ outcome.net = "timeout"
             \/ outcome.net \notin PostFailures /\ outcome.status = grok.resp.status
          /\ grok' = AfterFetch(grok, outcome)
    /\ UNCHANGED <<botvars, arg, ret>>

EditResults == {"ok", "Forbidden", "HTTPException"}

\* lines 114, 121-128: an awaited loading_msg.edit ends
GrokEditReturns ==
    /\ grok.pc = "edit"
    /\ \E result \in EditResults :
          LET tr == Append(grok.trace, GrokEvent("edit", <<grok.edit, result>>))
          IN  IF result = "ok"
              THEN grok' = [grok EXCEPT !.pc = "done", !.trace = tr]
              ELSE IF grok.in_try
              THEN grok' = [grok EXCEPT !.in_try = FALSE,
                                        !.edit = Handler(result), !.trace = tr]
              ELSE grok' = [grok EXCEPT !.pc = "raised", !.trace = tr]
    /\ UNCHANGED <<botvars, arg, ret>>

NextGrok ==
    \/ GrokOnMessage
    \/ GrokSendReturns
    \/ GrokHistoryReturns
    \/ GrokResponds
    \/ GrokFetchReturns
    \/ GrokEditReturns

SpecGrok == InitGrok /\ [][NextGrok]_vars

GrokPos(op) == {k \in 1..Len(grok.trace) : grok.trace[k].op = op}

GrokEnded == grok.pc \in {"done", "raised"}

GrokMentioned == GROK_ROLE_ID \in grok.message.role_mentions

EditFailed == \E k \in GrokPos("edit") : grok.trace[k].res[2] # "ok"

\* the parts of the claim that do not depend on the placeholder being there
SendFirstOneRequestNoRaise ==
    /\ \A h \in GrokPos("history") :
          \E k \in GrokPos("send") : k < h /\ grok.trace[k].res = "ok"
    /\ Cardinality(GrokPos("request")) <= 1
    /\ GrokPos("request") # {} => Strip(grok.chat_log) # <<>>
    /\ Cardinality(GrokPos("history")) <= 1
    /\ \A k \in GrokPos("fetch") : grok.trace[k].res # "raise"

\* C20 (as claimed): for every message mentioning the role, the placeholder
\* is sent before the history is read, at most one request is issued and
\* only for a non-empty history text, fetch_grok_response never raises, and
\* when the handler has ended without a failed edit the placeholder was
\* edited exactly once.
C20_PlaceholderEditedOnce ==
    (grok.pc # "absent" /\ GrokMentioned) =>
        /\ SendFirstOneRequestNoRaise
        /\ (GrokEnded /\ ~EditFailed) => Cardinality(GrokPos("edit")) = 1

PlaceholderSent == \E k \in GrokPos("send") : grok.trace[k].res = "ok"

\* C20 (amended): as claimed for every message mentioning the role whose
\* placeholder was sent; when the send of the placeholder fails the handler
\* ends with that exception, having read no history, issued no request and
\* edited nothing.
C20_EditedOnceWhenSent ==
    (grok.pc # "absent" /\ GrokMentioned) =>
        /\ SendFirstOneRequestNoRaise
        /\ (GrokEnded /\ ~EditFailed /\ PlaceholderSent) =>
              /\ Cardinality(GrokPos("edit")) = 1
              /\ grok.pc = "done"
        /\ (GrokEnded /\ ~PlaceholderSent) =>
              /\ grok.pc = "raised"
              /\ grok.trace = <<GrokEvent("send", grok.trace[1].res)>>

\* the request failed, and the placeholder was edited once with the answer form
C20_Witness ==
    /\ grok.pc = "done"
    /\ GrokMentioned
    /\ Len(grok.trace) = 5
    /\ grok.trace[4] = GrokEvent("fetch", "unexpected")
    /\ grok.trace[5] = GrokEvent("edit", <<"answer", "ok">>)

====
